---- MODULE Spec2Model ----
(***************************************************************************)
(* Restaurant search: the data loader, the document builders, the two     *)
(* vector stores, the search facade and the three agent tools.            *)
(*                                                                         *)
(* Text is modelled as a sequence of chunks (strings).  Fields the code   *)
(* inspects character by character (dietary tags, services, opening       *)
(* hours, times) are sequences of one-character chunks; a name or a       *)
(* phrase the code only copies or compares as a whole is one chunk.       *)
(* String concatenation is sequence concatenation.                        *)
(***************************************************************************)
EXTENDS Integers, Sequences, FiniteSets, TLC

\* ------------------------------------------------------------------ bounds
\* Rows of the remote "restaurants" sheet (the third is a restaurant zone_data
\* does not list).
NumRestaurants == 3
\* Rows of the remote "restaurant_dishes" association sheet.
NumAssoc == 3
\* Largest n_results a caller asks for.
MaxResults == 3
\* Largest number of optional parameters a caller sets in one search call.
MaxFilters == 2
\* /send requests of the web app, and text deltas of one streamed answer.
MaxStreams == 2
MaxDeltas == 2

\* ------------------------------------------------------- program constants
\* top_n_dishes default of index_restaurants / load_and_index
TopNDefault == 10
\* metres per degree of latitude, get_walking_time
MetersPerDegree == 111320
\* walking speed, metres per minute, get_walking_time
WalkingSpeed == 69

\* -------------------------------------------------------------------- text
\* pandas' missing value (float NaN, or None in an object column); pd.notna(v)
\* is v # NaN.  A number n in a table cell is the 1-tuple <<n>>; NaN has two
\* chunks so that it differs in length from every such cell.
NaN == <<"<NaN>", "<NaN>">>

notna(v) == v # NaN

\* str(v): str(NaN) is "nan".
Str(v) == IF v = NaN THEN <<"n", "a", "n">> ELSE v

\* Python truthiness of a str or a float NaN: only "" is falsy.
Truthy(v) == v # <<>>

\* a or b
PyOr(a, b) == IF Truthy(a) THEN a ELSE b

LowerChar(c) ==
  CASE c = "V" -> "v"
    [] c = "G" -> "g"
    [] c = "T" -> "t"
    [] c = "B" -> "b"
    [] OTHER -> c

\* A lower() that leaves every character as it is.
LowerUnchanged(s) == s

\* s.lower()
Lower(s) == [i \in DOMAIN s |-> LowerChar(s[i])]

\* kw in s (substring test)
Contains(kw, s) ==
  \E i \in 1..(Len(s) - Len(kw) + 1) : \A j \in 1..Len(kw) : s[i + j - 1] = kw[j]

IsSpace(c) == c \in {" ", "\t", "\n"}

RECURSIVE LStrip(_)
LStrip(s) == IF s # <<>> /\ IsSpace(Head(s)) THEN LStrip(Tail(s)) ELSE s

RECURSIVE RStrip(_)
RStrip(s) ==
  IF s # <<>> /\ IsSpace(s[Len(s)]) THEN RStrip(SubSeq(s, 1, Len(s) - 1)) ELSE s

\* s.strip()
Strip(s) == RStrip(LStrip(s))

\* s.split(sep): the pieces between the occurrences of the character sep.
RECURSIVE Split(_, _)
Split(s, sep) ==
  IF \E i \in DOMAIN s : s[i] = sep
  THEN LET i == CHOOSE j \in DOMAIN s :
                  s[j] = sep /\ \A h \in 1..(j - 1) : s[h] # sep
       IN <<SubSeq(s, 1, i - 1)>> \o Split(SubSeq(s, i + 1, Len(s)), sep)
  ELSE <<s>>

\* Code points of the characters that occur in times.
Ord(c) ==
  CASE c = " " -> 32
    [] c = "-" -> 45
    [] c = "0" -> 48
    [] c = "1" -> 49
    [] c = "2" -> 50
    [] c = "3" -> 51
    [] c = "4" -> 52
    [] c = "5" -> 53
    [] c = "6" -> 54
    [] c = "7" -> 55
    [] c = "8" -> 56
    [] c = "9" -> 57
    [] c = ":" -> 58
    [] OTHER -> 63

\* a <= b on Python strings: lexicographic by code point.
RECURSIVE StrLeq(_, _)
StrLeq(a, b) ==
  IF a = <<>> THEN TRUE
  ELSE IF b = <<>> THEN FALSE
  ELSE IF Ord(Head(a)) < Ord(Head(b)) THEN TRUE
  ELSE IF Ord(Head(a)) > Ord(Head(b)) THEN FALSE
  ELSE StrLeq(Tail(a), Tail(b))

\* sep.join(parts)
RECURSIVE JoinWith(_, _)
JoinWith(sep, parts) ==
  IF parts = <<>> THEN <<>>
  ELSE IF Len(parts) = 1 THEN parts[1]
  ELSE parts[1] \o sep \o JoinWith(sep, Tail(parts))

\* The subsequence of s at the indexes in idx, in order.
RECURSIVE SeqOfSet(_)
SeqOfSet(S) ==
  IF S = {} THEN <<>>
  ELSE LET m == CHOOSE x \in S : \A y \in S : x <= y
       IN <<m>> \o SeqOfSet(S \ {m})

Range(s) == {s[i] : i \in DOMAIN s}

\* ------------------------------------------------- the remote spreadsheet
RestIds == 1..NumRestaurants
AssocIds == 1..NumAssoc

Vegan == <<"v", "e", "g", "a", "n">>
Vegetarian == <<"v", "e", "g", "e", "t", "a", "r", "i", "a", "n">>
GlutenFree == <<"g", "l", "u", "t", "e", "n", "_", "f", "r", "e", "e">>
Halal == <<"h", "a", "l", "a", "l">>
LactoseFree == <<"l", "a", "c", "t", "o", "s", "e", "_", "f", "r", "e", "e">>
Takeaway == <<"t", "a", "k", "e", "a", "w", "a", "y">>
Bar == <<"b", "a", "r">>
CommaSpace == <<",", " ">>

\* An "HH:MM" time.
Time(a, b, c, d) == <<a, b, ":", c, d>>

\* One row of the "restaurants" sheet (the sheet has no zone, lat, lng columns).
SheetRestaurant(i) ==
  CASE i = 1 ->
         [id |-> 1, name |-> <<"Andreu">>, price_level |-> <<"low">>,
          description_long |-> <<"Catalan charcuterie and sandwiches">>,
          description_short |-> <<"Catalan deli">>,
          cuisines |-> <<"Catalan">>,
          dietary_tags |-> <<"V">> \o Tail(Vegan) \o CommaSpace \o Vegetarian,
          services |-> Takeaway,
          opening_hours |-> Time("0", "9", "0", "0") \o <<"-">> \o Time("2", "1", "0", "0"),
          has_menu |-> TRUE, allow_reservations |-> FALSE,
          phone |-> <<"+34 930 000 001">>, website_url |-> NaN]
    [] i = 2 ->
         [id |-> 2, name |-> <<"Dino">>, price_level |-> <<"high">>,
          description_long |-> <<"Italian trattoria">>,
          description_short |-> <<"Italian">>,
          cuisines |-> NaN,
          dietary_tags |-> NaN,
          services |-> <<"B">> \o Tail(Bar),
          opening_hours |-> NaN,
          has_menu |-> FALSE, allow_reservations |-> TRUE,
          phone |-> NaN, website_url |-> <<"https://dino.example">>]
    [] i = 3 ->
         [id |-> 3, name |-> <<"La Fonda">>, price_level |-> <<"low">>,
          description_long |-> <<"Daily set menu">>,
          description_short |-> <<"Set menu">>,
          cuisines |-> <<"Spanish">>,
          dietary_tags |-> GlutenFree,
          services |-> NaN,
          opening_hours |-> Time("1", "2", "0", "0") \o <<" ", "-", " ">> \o Time("1", "6", "0", "0"),
          has_menu |-> TRUE, allow_reservations |-> TRUE,
          phone |-> NaN, website_url |-> NaN]
    [] OTHER ->
         [id |-> i, name |-> <<"Starbucks">>, price_level |-> <<"medium">>,
          description_long |-> <<"Coffee house">>,
          description_short |-> <<"Coffee">>,
          cuisines |-> <<"Coffee">>,
          dietary_tags |-> Vegetarian,
          services |-> Takeaway \o CommaSpace \o Bar,
          opening_hours |-> Time("2", "1", "0", "0"),
          has_menu |-> FALSE, allow_reservations |-> FALSE,
          phone |-> <<"+34 930 000 004">>, website_url |-> <<"https://starbucks.example">>]

\* One row of the "restaurant_dishes" sheet: the dishes alternate between the
\* first two restaurants, the others serve none.
SheetAssoc(i) ==
  [restaurant_id |-> ((i - 1) % 2) + 1,
   dish_id |-> i,
   weight |-> CASE i = 1 -> 2 [] i = 2 -> 5 [] i = 3 -> 7 [] OTHER -> i,
   updated_at |-> <<"2025-01-01">>]

\* One row of the "dish_keywords" sheet.
SheetDish(d) ==
  CASE d = 1 ->
         [id |-> 1, text |-> <<"Escalivada toast">>,
          dietary_tags |-> Vegan, category |-> <<"starter">>]
    [] d = 2 ->
         [id |-> 2, text |-> <<"T-bone steak">>,
          dietary_tags |-> NaN, category |-> <<"main">>]
    [] d = 3 ->
         [id |-> 3, text |-> <<"Brownie">>,
          dietary_tags |-> GlutenFree \o CommaSpace \o Vegetarian,
          category |-> <<"dessert">>]
    [] OTHER ->
         [id |-> d, text |-> <<"Kebab">>,
          dietary_tags |-> Halal \o CommaSpace \o LactoseFree,
          category |-> NaN]

\* The workbook the remote source serves: the restaurants in R, the association
\* rows in A (sheet order), and which of the two dish sheets exist.
Workbook(R, A, hasAssoc, hasKeywords) ==
  [restaurants |-> [k \in 1..Cardinality(R) |-> SheetRestaurant(SeqOfSet(R)[k])],
   has_restaurant_dishes |-> hasAssoc,
   has_dish_keywords |-> hasKeywords,
   restaurant_dishes |-> [k \in 1..Cardinality(A) |-> SheetAssoc(SeqOfSet(A)[k])],
   dish_keywords |-> [d \in AssocIds |-> SheetDish(d)]]

\* The workbooks considered: any set of restaurant rows; the association sheet
\* holds its first n rows (it grows by appended rows), or a dish sheet is missing.
Workbooks ==
  {Workbook(R, 1..n, TRUE, TRUE) : R \in SUBSET RestIds, n \in 0..NumAssoc}
    \cup {Workbook(R, {}, FALSE, TRUE) : R \in SUBSET RestIds}
    \cup {Workbook(R, {}, TRUE, FALSE) : R \in SUBSET RestIds}

\* ---------------------------------------------------------- the data loader
\* zone_data of load_restaurant_data; latitude and longitude in microdegrees.
ZoneData ==
  {[name |-> <<"Andreu">>, zone |-> <<"north">>, lat |-> 41613362, lng |-> 2345123],
   [name |-> <<"Atmosferas Mordisco">>, zone |-> <<"center">>, lat |-> 41610738, lng |-> 2343823],
   [name |-> <<"Corso Iluzione">>, zone |-> <<"south">>, lat |-> 41608389, lng |-> 2342116],
   [name |-> <<"Centric">>, zone |-> <<"north">>, lat |-> 41611688, lng |-> 2344386],
   [name |-> <<"Dino">>, zone |-> <<"north">>, lat |-> 41611700, lng |-> 2344400],
   [name |-> <<"Farggi 1957">>, zone |-> <<"south">>, lat |-> 41608412, lng |-> 2342555],
   [name |-> <<"Mori by Parco">>, zone |-> <<"north">>, lat |-> 41612212, lng |-> 2345061],
   [name |-> <<"Starbucks">>, zone |-> <<"center">>, lat |-> 41610216, lng |-> 2343253],
   [name |-> <<"Waff (Ice Pops)">>, zone |-> <<"center">>, lat |-> 41609468, lng |-> 2342820],
   [name |-> <<"Lindt">>, zone |-> <<"center">>, lat |-> 41610858, lng |-> 2344183],
   [name |-> <<"Fire & Bread">>, zone |-> <<"center">>, lat |-> 41610417, lng |-> 2343262],
   [name |-> <<"Gasso">>, zone |-> <<"south">>, lat |-> 41608751, lng |-> 2342281],
   [name |-> <<"Izky Noodles">>, zone |-> <<"south">>, lat |-> 41609422, lng |-> 2342783],
   [name |-> <<"Rocambolesc">>, zone |-> <<"north">>, lat |-> 41611882, lng |-> 2344658]}

\* Lines 69-80: add the zone, lat, lng columns and fill them from zone_data.
BackfillZone(row) ==
  IF \E z \in ZoneData : z.name = row.name
  THEN LET z == CHOOSE z \in ZoneData : z.name = row.name
       IN row @@ [zone |-> z.zone, lat |-> <<z.lat>>, lng |-> <<z.lng>>]
  ELSE row @@ [zone |-> NaN, lat |-> NaN, lng |-> NaN]

\* The (left row, right row) pairs of an inner join on left[lk] = right.id, in
\* left order; the right sheets have unique ids.
RECURSIVE JoinPairs(_, _, _)
JoinPairs(left, right, lk) ==
  IF left = <<>> THEN <<>>
  ELSE LET l == Head(left)
           hits == {j \in DOMAIN right : right[j].id = l[lk]}
           rest == JoinPairs(Tail(left), right, lk)
       IN IF hits = {} THEN rest
          ELSE <<[l |-> l, r |-> right[CHOOSE j \in hits : TRUE]]>> \o rest

\* left.merge(right, left_on=lk, right_on='id'): columns are the columns the
\* right row adds to the left one.
MergeOn(left, right, lk, columns) ==
  LET pairs == JoinPairs(left, right, lk)
  IN [k \in DOMAIN pairs |-> pairs[k].l @@ [c \in columns |-> pairs[k].r[c]]]

DishColumns == {"text", "dietary_tags", "category"}

NameColumn == {"name"}

\* (restaurant_id ascending, weight descending)
DishBefore(a, b) ==
  \/ a.restaurant_id < b.restaurant_id
  \/ a.restaurant_id = b.restaurant_id /\ a.weight > b.weight

RECURSIVE InsertSorted(_, _)
InsertSorted(row, sorted) ==
  IF sorted = <<>> THEN <<row>>
  ELSE IF DishBefore(row, Head(sorted)) THEN <<row>> \o sorted
  ELSE <<Head(sorted)>> \o InsertSorted(row, Tail(sorted))

\* df.sort_values(['restaurant_id', 'weight'], ascending=[True, False])
RECURSIVE SortDishes(_)
SortDishes(rows) ==
  IF rows = <<>> THEN <<>>
  ELSE InsertSorted(rows[Len(rows)], SortDishes(SubSeq(rows, 1, Len(rows) - 1)))

\* A DataFrame: its rows, and whether it has columns (pd.DataFrame() has none).
Frame(rows) == [columns |-> TRUE, rows |-> rows]
EmptyFrame == [columns |-> FALSE, rows |-> <<>>]

\* A loader that leaves out the merge with the restaurants sheet.
load_restaurant_data_unjoined(wb) ==
  [df_restaurants |-> [k \in DOMAIN wb.restaurants |-> BackfillZone(wb.restaurants[k])],
   df_dishes |->
     IF wb.has_restaurant_dishes /\ wb.has_dish_keywords
     THEN Frame(SortDishes(MergeOn(wb.restaurant_dishes, wb.dish_keywords,
                                   "dish_id", DishColumns)))
     ELSE EmptyFrame]

\* load_restaurant_data: (df_restaurants, df_dishes)
load_restaurant_data(wb) ==
  LET df_dishes ==
        IF wb.has_restaurant_dishes /\ wb.has_dish_keywords
        THEN Frame(SortDishes(
               MergeOn(MergeOn(wb.restaurant_dishes, wb.dish_keywords, "dish_id", DishColumns),
                       wb.restaurants, "restaurant_id", NameColumn)))
        ELSE EmptyFrame
      df_restaurants == [k \in DOMAIN wb.restaurants |-> BackfillZone(wb.restaurants[k])]
  IN [df_restaurants |-> df_restaurants, df_dishes |-> df_dishes]

\* Every (df_restaurants, df_dishes) pair the loader can return.
LoadedTables == {load_restaurant_data(wb) : wb \in Workbooks}

\* ------------------------------------------------------ document builders
\* The first top_n rows of the dish table, whatever their restaurant.
TopDishesOfAnyRestaurant(id, df_dishes, top_n) ==
  SubSeq(df_dishes.rows, 1,
         IF Len(df_dishes.rows) < top_n THEN Len(df_dishes.rows) ELSE top_n)

\* df_dishes[df_dishes['restaurant_id'] == id].head(top_n)
TopDishes(id, df_dishes, top_n) ==
  LET mine == SelectSeq(df_dishes.rows, LAMBDA d : d.restaurant_id = id)
  IN SubSeq(mine, 1, IF Len(mine) < top_n THEN Len(mine) ELSE top_n)

\* One "- text (tags)" line of the menu highlights.
DishLine(dish) ==
  <<"- ">> \o dish.text
    \o (IF notna(dish.dietary_tags) THEN <<" (">> \o dish.dietary_tags \o <<")">> ELSE <<>>)

\* make_restaurant_doc_with_dishes raises KeyError on a frame without columns.
RestaurantDocRaises(row, df_dishes) == ~df_dishes.columns

make_restaurant_doc_with_dishes(row, df_dishes, top_n) ==
  LET rest_dishes == TopDishes(row.id, df_dishes, top_n)
      parts ==
        << row.name \o <<" is a ">> \o row.price_level \o <<"-priced restaurant">>,
           IF notna(row.zone)
             THEN <<"located in the ">> \o row.zone \o <<" zone of the mall.">>
             ELSE <<".">>,
           PyOr(row.description_long, row.description_short),
           IF notna(row.cuisines) THEN <<"Cuisine types: ">> \o row.cuisines \o <<".">> ELSE <<>>,
           IF notna(row.dietary_tags)
             THEN <<"Dietary options available: ">> \o row.dietary_tags \o <<".">> ELSE <<>>,
           IF notna(row.services) THEN <<"Services: ">> \o row.services \o <<".">> ELSE <<>>,
           IF notna(row.opening_hours) THEN <<"Open ">> \o row.opening_hours \o <<".">> ELSE <<>> >>
          \o (IF Len(rest_dishes) > 0
              THEN <<(<<"\nMenu highlights:">>)>>
                     \o [k \in DOMAIN rest_dishes |-> DishLine(rest_dishes[k])]
              ELSE <<>>)
  IN JoinWith(<<" ">>, SelectSeq(parts, Truthy))

make_metadata(row) ==
  LET hours == row.opening_hours
      parsed == notna(hours) /\ Contains(<<"-">>, Str(hours))
      times == Split(Str(hours), "-")
      dietary == Lower(Str(row.dietary_tags))
      services == Lower(Str(row.services))
  IN [restaurant_id |-> row.id,
      name |-> row.name,
      price_level |-> row.price_level,
      zone |-> IF notna(row.zone) THEN row.zone ELSE <<>>,
      latitude |-> IF notna(row.lat) THEN row.lat[1] ELSE 0,
      longitude |-> IF notna(row.lng) THEN row.lng[1] ELSE 0,
      has_vegetarian |-> Contains(Vegetarian, dietary),
      has_vegan |-> Contains(Vegan, dietary),
      has_gluten_free |-> Contains(GlutenFree, dietary),
      has_menu |-> row.has_menu,
      allow_reservations |-> row.allow_reservations,
      has_takeaway |-> Contains(Takeaway, services),
      has_bar |-> Contains(Bar, services),
      phone |-> row.phone,
      website_url |-> row.website_url,
      opening_time |-> IF parsed THEN Strip(times[1]) ELSE <<>>,
      closing_time |-> IF parsed THEN Strip(times[2]) ELSE <<>>]

\* make_dish_doc: the dish text, then its category and dietary tags when present.
make_dish_doc(row) ==
  JoinWith(<<" ">>, SelectSeq(
    << row.text,
       IF notna(row.category) THEN <<"Category: ">> \o row.category \o <<".">> ELSE <<>>,
       IF notna(row.dietary_tags) THEN <<"Dietary: ">> \o row.dietary_tags \o <<".">> ELSE <<>> >>,
    Truthy))

\* make_dish_metadata: the dish's own fields plus the owning restaurant's name,
\* zone and price level, looked up in df_restaurants by restaurant_id.
make_dish_metadata(row, df_restaurants) ==
  LET owner == df_restaurants[CHOOSE k \in DOMAIN df_restaurants :
                                df_restaurants[k].id = row.restaurant_id]
      dietary == Lower(Str(row.dietary_tags))
  IN [dish_id |-> row.dish_id,
      restaurant_id |-> row.restaurant_id,
      restaurant_name |-> owner.name,
      zone |-> IF notna(owner.zone) THEN owner.zone ELSE <<>>,
      price_level |-> owner.price_level,
      category |-> IF notna(row.category) THEN row.category ELSE <<>>,
      has_vegetarian |-> Contains(Vegetarian, dietary),
      has_vegan |-> Contains(Vegan, dietary),
      has_gluten_free |-> Contains(GlutenFree, dietary),
      has_halal |-> Contains(Halal, dietary),
      has_lactose_free |-> Contains(LactoseFree, dietary)]

\* ------------------------------------------------------------------- state
VARIABLES
  db,        \* the persistent storage at db_path: the two named collections
  facade,    \* the RestaurantSearch object: its two stores' collection handles
             \* and its df_restaurants / df_dishes fields
  instance,  \* RestaurantSearch._instance: "None", or "facade" (the facade above)
  loaded,    \* history: some load_and_index call has returned normally
  pc,        \* "idle", or "done" while the caller holds the last call's outcome
  lastOp     \* the last call: its arguments, the storage before it, its outcome

\* The web app (main.py): one entry per /send request, indexed by stream id.
VARIABLES
  streams,   \* the registry: the stream ids that have a queue registered
  queues,    \* the Queue of each request: the items put and not yet taken
  content,   \* the producer thread's local content: the deltas so far
  producer,  \* where the producer thread of each request stands
  produced,  \* history: every item put on the queue, in order
  consumer,  \* where the /stream generator of each stream id stands
  emitted    \* history: the items the /stream generator has yielded

web == <<streams, queues, content, producer, produced, consumer, emitted>>

vars == <<db, facade, instance, loaded, pc, lastOp, web>>

\* ------------------------------------------------------- the vector stores
\* A collection of the storage: whether it exists, and its entries
\* [id, document, metadata] (no entries when it does not exist).
NoCollection == [exists |-> FALSE, entries |-> {}]

\* A store object's view: the named collection and self.collection.
Store(coll, handle) == [coll |-> coll, handle |-> handle]

Ids(entries) == {e.id : e \in entries}

\* client.get_or_create_collection(name); self.collection = it
create_or_get_collection(st) ==
  Store([exists |-> TRUE, entries |-> st.coll.entries], "handle")

\* delete_collection: client.delete_collection raises when the collection does
\* not exist or the storage fails; the exception is caught and printed, and
\* self.collection is reset only when the delete went through.
delete_collection(st, storageFails) ==
  IF st.coll.exists /\ ~storageFails THEN Store(NoCollection, "None") ELSE st

\* An add that appends the batch without replacing the entries of the same id.
UpsertAppends(entries, batch) == entries \cup Range(batch)

\* A mirror: the collection becomes the batch.
UpsertMirrors(entries, batch) == Range(batch)

\* collection.upsert(documents, metadatas, ids): an entry whose id is in the
\* batch is replaced, the others are kept, new ids are added.
Upsert(entries, batch) ==
  {e \in entries : e.id \notin Ids(Range(batch))} \cup Range(batch)

\* collection.upsert raises on an empty batch (the ids must be a non-empty
\* list), on a storage failure, and through a handle whose collection is gone.
UpsertError(st, batch, storageFails) ==
  IF batch = <<>> THEN "ValueError"
  ELSE IF storageFails \/ ~st.coll.exists THEN "StorageError"
  ELSE ""

\* count(): get or create the collection, then collection.count()
count(st) == Cardinality(st.coll.entries)

RestaurantId(id) == <<"rest_", id>>
DishId(restaurant_id, dish_id) == <<"dish_", restaurant_id, "_", dish_id>>

\* The ids, documents and metadatas index_restaurants builds from the rows.
BuildRestaurantBatch(df_restaurants, df_dishes, top_n) ==
  [k \in DOMAIN df_restaurants |->
     [id |-> RestaurantId(df_restaurants[k].id),
      document |-> make_restaurant_doc_with_dishes(df_restaurants[k], df_dishes, top_n),
      metadata |-> make_metadata(df_restaurants[k])]]

\* The ids, documents and metadatas index_dishes builds from the rows.
BuildDishBatch(df_dishes, df_restaurants) ==
  [k \in DOMAIN df_dishes.rows |->
     [id |-> DishId(df_dishes.rows[k].restaurant_id, df_dishes.rows[k].dish_id),
      document |-> make_dish_doc(df_dishes.rows[k]),
      metadata |-> make_dish_metadata(df_dishes.rows[k], df_restaurants)]]

\* Both batches of every table pair a workbook loads to, built once (a pair
\* whose restaurant documents cannot be built has no restaurant batch).
RestaurantBatches ==
  [t \in {x \in LoadedTables : x.df_restaurants = <<>> \/ x.df_dishes.columns} |->
     BuildRestaurantBatch(t.df_restaurants, t.df_dishes, TopNDefault)]

DishBatches ==
  [t \in LoadedTables |-> BuildDishBatch(t.df_dishes, t.df_restaurants)]

RestaurantBatch(df_restaurants, df_dishes, top_n) ==
  LET t == [df_restaurants |-> df_restaurants, df_dishes |-> df_dishes]
  IN IF top_n = TopNDefault /\ t \in DOMAIN RestaurantBatches
     THEN RestaurantBatches[t]
     ELSE BuildRestaurantBatch(df_restaurants, df_dishes, top_n)

DishBatch(df_dishes, df_restaurants) ==
  LET t == [df_restaurants |-> df_restaurants, df_dishes |-> df_dishes]
  IN IF t \in DOMAIN DishBatches THEN DishBatches[t]
     ELSE BuildDishBatch(df_dishes, df_restaurants)

\* The two steps every index call starts with: the drop when force_reindex,
\* then get-or-create when the store holds no handle.
PrepareCollection(st, force_reindex, fault) ==
  LET dropped == IF force_reindex THEN delete_collection(st, fault = "delete") ELSE st
  IN IF dropped.handle = "None" THEN create_or_get_collection(dropped) ELSE dropped

\* The last step of every index call, self.collection.upsert(...) on the
\* prepared store: the store afterwards, and the exception that left the call
\* ("" when it returned).
UpsertBatch(ready, batch, fault) ==
  IF UpsertError(ready, batch, fault = "upsert") # ""
  THEN [store |-> ready, raised |-> UpsertError(ready, batch, fault = "upsert")]
  ELSE [store |-> Store([exists |-> TRUE, entries |-> Upsert(ready.coll.entries, batch)],
                        ready.handle),
        raised |-> ""]

\* RestaurantVectorStore.index_restaurants: the store afterwards, and the
\* exception that left it ("" when it returned).
index_restaurants(st, df_restaurants, df_dishes, top_n, force_reindex, fault) ==
  IF df_restaurants # <<>> /\ RestaurantDocRaises(df_restaurants[1], df_dishes)
  THEN [store |-> PrepareCollection(st, force_reindex, fault), raised |-> "KeyError"]
  ELSE UpsertBatch(PrepareCollection(st, force_reindex, fault),
                   RestaurantBatch(df_restaurants, df_dishes, top_n), fault)

\* DishVectorStore.index_dishes
index_dishes(st, df_dishes, df_restaurants, force_reindex, fault) ==
  UpsertBatch(PrepareCollection(st, force_reindex, fault),
              DishBatch(df_dishes, df_restaurants), fault)

\* The storage failures an index call meets here: none, the failure of the
\* upsert, or the failure of the drop that force_reindex asks for.
IndexFaults(force_reindex) ==
  IF force_reindex THEN {"none", "delete", "upsert"} ELSE {"none", "upsert"}

\* The top_n_dishes the callers pass: the default.
TopNChoices == {TopNDefault}

\* ------------------------------------------------------------ the machine
NoOp == [op |-> "none"]

\* A facade as __init__ leaves it.
NewFacade ==
  [vector_store |-> "None", dish_vector_store |-> "None",
   df_restaurants |-> {}, df_dishes |-> {}]

\* A fresh process on an empty db_path, its stores constructed.
Init ==
  /\ db = [restaurants |-> NoCollection, dishes |-> NoCollection]
  /\ facade = NewFacade
  /\ instance = "None"
  /\ loaded = FALSE
  /\ pc = "idle"
  /\ lastOp = NoOp
  /\ streams = {}
  /\ queues = [s \in 1..MaxStreams |-> <<>>]
  /\ content = [s \in 1..MaxStreams |-> <<>>]
  /\ producer = [s \in 1..MaxStreams |-> "unstarted"]
  /\ produced = [s \in 1..MaxStreams |-> <<>>]
  /\ consumer = [s \in 1..MaxStreams |-> "none"]
  /\ emitted = [s \in 1..MaxStreams |-> <<>>]

RestaurantStore == Store(db.restaurants, facade.vector_store)
DishStore == Store(db.dishes, facade.dish_vector_store)

\* The caller takes the outcome of the last call.
Return ==
  /\ pc = "done"
  /\ pc' = "idle"
  /\ lastOp' = NoOp
  /\ UNCHANGED <<db, facade, instance, loaded>>
  /\ UNCHANGED web

\* vector_store.index_restaurants(df_restaurants, df_dishes, top_n, force_reindex)
IndexRestaurants(t, top_n, force_reindex, fault) ==
  /\ pc = "idle"
  /\ \E r \in {index_restaurants(RestaurantStore, t.df_restaurants, t.df_dishes,
                                  top_n, force_reindex, fault)} :
       /\ db' = [db EXCEPT !.restaurants = r.store.coll]
       /\ facade' = [facade EXCEPT !.vector_store = r.store.handle]
       /\ lastOp' = [op |-> "index_restaurants", table |-> t, top_n |-> top_n,
                     force_reindex |-> force_reindex, fault |-> fault,
                     before |-> db.restaurants, raised |-> r.raised]
  /\ pc' = "done"
  /\ UNCHANGED <<instance, loaded>>
  /\ UNCHANGED web

\* dish_vector_store.index_dishes(df_dishes, df_restaurants, force_reindex)
IndexDishes(t, force_reindex, fault) ==
  /\ pc = "idle"
  /\ \E r \in {index_dishes(DishStore, t.df_dishes, t.df_restaurants,
                             force_reindex, fault)} :
       /\ db' = [db EXCEPT !.dishes = r.store.coll]
       /\ facade' = [facade EXCEPT !.dish_vector_store = r.store.handle]
       /\ lastOp' = [op |-> "index_dishes", table |-> t,
                     force_reindex |-> force_reindex, fault |-> fault,
                     before |-> db.dishes, raised |-> r.raised]
  /\ pc' = "done"
  /\ UNCHANGED <<instance, loaded>>
  /\ UNCHANGED web

\* New store objects over the same db_path (a new process, a new test).
Reopen ==
  /\ pc = "idle"
  /\ facade.vector_store = "handle" \/ facade.dish_vector_store = "handle"
  /\ facade' = NewFacade
  /\ UNCHANGED <<db, instance, loaded, pc, lastOp>>
  /\ UNCHANGED web

Next ==
  \/ /\ pc = "idle"
     /\ \E t \in LoadedTables, top_n \in TopNChoices, force_reindex \in BOOLEAN :
          \E fault \in IndexFaults(force_reindex) :
            IndexRestaurants(t, top_n, force_reindex, fault)
  \/ /\ pc = "idle"
     /\ \E t \in LoadedTables, force_reindex \in BOOLEAN :
          \E fault \in IndexFaults(force_reindex) :
            IndexDishes(t, force_reindex, fault)
  \/ Reopen
  \/ Return

\* The stores used directly.
Spec == Init /\ [][Next]_vars

\* -------------------------------------------------------------- the facade
\* A skip as soon as either collection reports a non-zero count.
AlreadyIndexedEither(restaurant_count, dish_count) ==
  restaurant_count > 0 \/ dish_count > 0

\* "Data already indexed": both collections report a non-zero count.
AlreadyIndexed(restaurant_count, dish_count) ==
  restaurant_count > 0 /\ dish_count > 0

\* What the remote source answers: a workbook's tables, or a failed fetch.
FetchFailed == [fetch |-> "failed"]
Sources == LoadedTables \cup {FetchFailed}

\* RestaurantSearch.load_and_index on the storage d and the facade f: both
\* afterwards, whether the call skipped, whether it fetched, and the exception
\* that left it ("" when it returned).
\* Lines 299-316 of load_and_index, the tables fetched and kept in f1: r is
\* what index_restaurants gave on the restaurant store, x what index_dishes
\* gives on the dish store ds0 (called only when there are dish rows).
LoadIndexed(ds0, f1, source, r, x) ==
  LET d1 == [restaurants |-> r.store.coll, dishes |-> ds0.coll]
      f2 == [f1 EXCEPT !.vector_store = r.store.handle]
      d2 == [d1 EXCEPT !.dishes = x.store.coll]
      f3 == [f2 EXCEPT !.dish_vector_store = x.store.handle]
  IN IF r.raised # ""
     THEN [db |-> d1, facade |-> f2, skipped |-> FALSE, fetched |-> TRUE,
           raised |-> r.raised]
     ELSE IF Len(source.df_dishes.rows) > 0
     THEN [db |-> d2, facade |-> f3, skipped |-> FALSE, fetched |-> TRUE,
           raised |-> x.raised]
     ELSE [db |-> d1, facade |-> f2, skipped |-> FALSE, fetched |-> TRUE, raised |-> ""]

\* A load that drops both collections before it fetches when force_reindex.
LoadFromDroppedFirst(rs0, ds0, f, source, force_reindex, top_n, faultR, faultD) ==
  LET rs == IF force_reindex THEN delete_collection(rs0, FALSE) ELSE rs0
      ds == IF force_reindex THEN delete_collection(ds0, FALSE) ELSE ds0
      d0 == [restaurants |-> rs.coll, dishes |-> ds.coll]
      f0 == [f EXCEPT !.vector_store = rs.handle, !.dish_vector_store = ds.handle]
      f1 == [f0 EXCEPT !.df_restaurants = {source.df_restaurants},
                       !.df_dishes = {source.df_dishes}]
  IN IF ~force_reindex /\ AlreadyIndexed(count(rs), count(ds))
     THEN [db |-> d0, facade |-> f0, skipped |-> TRUE, fetched |-> FALSE, raised |-> ""]
     ELSE IF source = FetchFailed
     THEN [db |-> d0, facade |-> f0, skipped |-> FALSE, fetched |-> TRUE,
           raised |-> "FetchError"]
     ELSE LoadIndexed(ds, f1, source,
                      index_restaurants(rs, source.df_restaurants, source.df_dishes,
                                        top_n, force_reindex, faultR),
                      index_dishes(ds, source.df_dishes, source.df_restaurants,
                                   force_reindex, faultD))

\* Lines 286-316 of load_and_index, rs0 and ds0 being the two stores after
\* lines 278-285: the skip test, the fetch, the two index calls.
LoadFrom(rs0, ds0, f, source, force_reindex, top_n, faultR, faultD) ==
  LET d0 == [restaurants |-> rs0.coll, dishes |-> ds0.coll]
      f0 == [f EXCEPT !.vector_store = rs0.handle, !.dish_vector_store = ds0.handle]
      \* lines 291-297
      f1 == [f0 EXCEPT !.df_restaurants = {source.df_restaurants},
                       !.df_dishes = {source.df_dishes}]
  IN IF ~force_reindex /\ AlreadyIndexed(count(rs0), count(ds0))
     THEN [db |-> d0, facade |-> f0, skipped |-> TRUE, fetched |-> FALSE, raised |-> ""]
     ELSE IF source = FetchFailed
     THEN [db |-> d0, facade |-> f0, skipped |-> FALSE, fetched |-> TRUE,
           raised |-> "FetchError"]
     ELSE LoadIndexed(ds0, f1, source,
                      index_restaurants(rs0, source.df_restaurants, source.df_dishes,
                                        top_n, force_reindex, faultR),
                      index_dishes(ds0, source.df_dishes, source.df_restaurants,
                                   force_reindex, faultD))

load_and_index(d, f, source, force_reindex, top_n, faultR, faultD) ==
  \* lines 278-285: get or create both collections unless force_reindex
  LoadFrom(IF force_reindex THEN Store(d.restaurants, f.vector_store)
           ELSE create_or_get_collection(Store(d.restaurants, f.vector_store)),
           IF force_reindex THEN Store(d.dishes, f.dish_vector_store)
           ELSE create_or_get_collection(Store(d.dishes, f.dish_vector_store)),
           f, source, force_reindex, top_n, faultR, faultD)

\* The words of the price_level and zone columns, in the order Python's string
\* comparison gives them.
WordRank(cell) ==
  CHOOSE i \in 1..6 : <<"center", "high", "low", "medium", "north", "south">>[i] = cell[1]

\* Series.dropna().unique().tolist(): the non-null cells, each once, in order
\* of first appearance.
RECURSIVE DropnaUnique(_)
DropnaUnique(cells) ==
  IF cells = <<>> THEN <<>>
  ELSE LET before == DropnaUnique(SubSeq(cells, 1, Len(cells) - 1))
           last == cells[Len(cells)]
       IN IF notna(last) /\ last \notin Range(before)
          THEN Append(before, last) ELSE before

\* A list handed back as it is, not sorted.
SortedNot(words) == words

\* sorted(words)
RECURSIVE Sorted(_)
Sorted(words) ==
  IF words = <<>> THEN <<>>
  ELSE LET m == CHOOSE i \in DOMAIN words :
                  \A j \in DOMAIN words : WordRank(words[i]) <= WordRank(words[j])
       IN <<words[m]>> \o Sorted(SelectSeq(words, LAMBDA w : w # words[m]))

\* RestaurantSearch.get_available_zones (column "zone") and
\* get_available_price_levels (column "price_level")
get_available(f, column) ==
  IF f.df_restaurants = {} THEN <<>>
  ELSE LET df == CHOOSE t \in f.df_restaurants : TRUE
       IN Sorted(DropnaUnique([k \in DOMAIN df |-> df[k][column]]))

\* RestaurantSearch(db_path): new stores, no tables, and the singleton set.
Construct ==
  /\ pc = "idle"
  /\ facade' = NewFacade
  /\ instance' = "facade"
  /\ UNCHANGED <<db, loaded, pc, lastOp>>
  /\ UNCHANGED web

\* search.load_and_index(force_reindex=...), the remote source answering source.
LoadAndIndex(source, force_reindex, top_n, faultR, faultD) ==
  /\ pc = "idle"
  /\ instance = "facade"
  /\ \E r \in {load_and_index(db, facade, source, force_reindex, top_n,
                               faultR, faultD)} :
       /\ db' = r.db
       /\ facade' = r.facade
       /\ loaded' = (loaded \/ r.raised = "")
       /\ lastOp' = [op |-> "load_and_index", source |-> source, top_n |-> top_n,
                     force_reindex |-> force_reindex,
                     faultR |-> faultR, faultD |-> faultD,
                     before |-> db, loaded_before |-> loaded,
                     table_before |-> facade.df_restaurants,
                     skipped |-> r.skipped, fetched |-> r.fetched, raised |-> r.raised]
  /\ pc' = "done"
  /\ UNCHANGED instance
  /\ UNCHANGED web

\* search.get_available_zones()
GetAvailableZones ==
  /\ pc = "idle"
  /\ instance = "facade"
  /\ lastOp' = [op |-> "get_available_zones", column |-> "zone",
                result |-> get_available(facade, "zone")]
  /\ pc' = "done"
  /\ UNCHANGED <<db, facade, instance, loaded>>
  /\ UNCHANGED web

\* search.get_available_price_levels()
GetAvailablePriceLevels ==
  /\ pc = "idle"
  /\ instance = "facade"
  /\ lastOp' = [op |-> "get_available_price_levels", column |-> "price_level",
                result |-> get_available(facade, "price_level")]
  /\ pc' = "done"
  /\ UNCHANGED <<db, facade, instance, loaded>>
  /\ UNCHANGED web

NextFacade ==
  \/ Construct
  \/ /\ pc = "idle" /\ instance = "facade"
     /\ \E source \in Sources, force_reindex \in BOOLEAN, top_n \in TopNChoices :
          \E faultR \in IndexFaults(force_reindex),
             faultD \in IndexFaults(force_reindex) :
            LoadAndIndex(source, force_reindex, top_n, faultR, faultD)
  \/ GetAvailableZones
  \/ GetAvailablePriceLevels
  \/ Return

\* The facade: construction (a process start) and load_and_index.
SpecFacade == Init /\ [][NextFacade]_vars

\* ------------------------------------------------------- the store queries
\* The texts callers search for.
QueryNear == <<"vegan sandwiches">>
QueryFar == <<"a drink at the bar">>
Queries == {QueryNear, QueryFar}

\* The embedding distance between a query text and an indexed entry: some
\* fixed number per (query, entry), different for different entries.
EntryKey(e) ==
  IF "dish_id" \in DOMAIN e.metadata THEN e.metadata.dish_id
  ELSE e.metadata.restaurant_id

Distance(q, e) ==
  IF q = QueryNear THEN EntryKey(e) ELSE NumRestaurants + NumAssoc - EntryKey(e)

\* The where argument: no filter ({}), or one dict ({where}).
NoArgs == <<>>

\* A store that takes every entry as a match.
MatchesAnything(metadata, where) == TRUE

\* An entry satisfies a where dict when every field of it equals the value.
Matches(metadata, where) ==
  \A p \in DOMAIN where : p \in DOMAIN metadata /\ metadata[p] = where[p]

\* Nearest first.
RECURSIVE Ranked(_, _)
Ranked(q, S) ==
  IF S = {} THEN <<>>
  ELSE LET nearest == CHOOSE e \in S : \A g \in S : Distance(q, e) <= Distance(q, g)
       IN <<nearest>> \o Ranked(q, S \ {nearest})

\* collection.query(query_texts=[query], n_results, where): the n_results
\* nearest entries among those that satisfy where.  A where dict of several
\* fields is taken as their conjunction by a storage release that accepts it
\* and rejected with ValueError by a strict one (which wants $and).
CollectionQuery(entries, query, n_results, where, strict) ==
  IF where # {} /\ strict /\ Cardinality(DOMAIN (CHOOSE w \in where : TRUE)) > 1
  THEN [raised |-> "ValueError", hits |-> <<>>]
  ELSE LET ok == {e \in entries : \A w \in where : Matches(e.metadata, w)}
           ranked == Ranked(query, ok)
       IN [raised |-> "",
           hits |-> SubSeq(ranked, 1, IF n_results < Len(ranked) THEN n_results
                                      ELSE Len(ranked))]

\* RestaurantVectorStore.search / DishVectorStore.search: get or create the
\* collection when the store holds no handle, then query it.
store_search(st, query, n_results, where, strict) ==
  LET ready == IF st.handle = "None" THEN create_or_get_collection(st) ELSE st
      r == CollectionQuery(ready.coll.entries, query, n_results, where, strict)
  IN [store |-> ready, raised |-> r.raised, hits |-> r.hits]

\* ------------------------------------------------------ the facade searches
\* A where dict built on truthiness alone: a flag given as False is dropped.
SearchWhereTruthy(args) ==
  [p \in {q \in DOMAIN args :
            IF q \in {"price_level", "zone", "opening_time", "closing_time"}
            THEN args[q] # <<>>
            ELSE IF q \in {"latitude", "longitude"} THEN args[q] # 0
            ELSE args[q]} |-> args[p]]

\* The where dict of RestaurantSearch.search: price_level and zone when they
\* are truthy, every other filter when it is not None.
SearchWhere(args) ==
  [p \in {q \in DOMAIN args :
            /\ q \in {"price_level", "zone", "has_vegetarian", "has_vegan",
                      "has_gluten_free", "has_takeaway", "has_bar", "has_menu",
                      "allow_reservations", "latitude", "longitude",
                      "opening_time", "closing_time"}
            /\ q \in {"price_level", "zone"} => Truthy(args[q])} |-> args[p]]

\* The where dict of RestaurantSearch.search_dishes: restaurant_name, zone,
\* price_level and category when they are truthy, the flags when not None.
SearchDishesWhere(args) ==
  [p \in {q \in DOMAIN args :
            /\ q \in {"restaurant_name", "zone", "price_level", "has_vegetarian",
                      "has_vegan", "has_gluten_free", "has_halal",
                      "has_lactose_free", "category"}
            /\ q \in {"restaurant_name", "zone", "price_level", "category"}
                 => Truthy(args[q])} |-> args[p]]

\* where if where else None
WhereArg(where) == IF where = NoArgs THEN {} ELSE {where}

\* results['ids'][0][i], documents, metadatas, distances as one list of dicts
FormatResults(query, hits) ==
  [i \in DOMAIN hits |->
     [id |-> hits[i].id, document |-> hits[i].document,
      metadata |-> hits[i].metadata, distance |-> Distance(query, hits[i])]]

\* RestaurantSearch.search(query, n_results, **args) on the store st: the
\* store afterwards, the where it passed, the results or the exception.
search(st, query, n_results, args, strict) ==
  LET where == WhereArg(SearchWhere(args))
      r == store_search(st, query, n_results, where, strict)
  IN [store |-> r.store, where |-> where, raised |-> r.raised,
      results |-> FormatResults(query, r.hits)]

\* RestaurantSearch.search_dishes(query, n_results, **args)
search_dishes(st, query, n_results, args, strict) ==
  LET where == WhereArg(SearchDishesWhere(args))
      r == store_search(st, query, n_results, where, strict)
  IN [store |-> r.store, where |-> where, raised |-> r.raised,
      results |-> FormatResults(query, r.hits)]

\* A lookup by id that lets the failure of the store's get out.
get_by_id_raising(st, restaurant_id, storageFails) ==
  [store |-> st, raised |-> IF storageFails THEN "StorageError" ELSE "",
   result |-> {e \in st.coll.entries : e.id = RestaurantId(restaurant_id)}]

\* RestaurantVectorStore.get_by_id: the entry of id rest_<restaurant_id>; no
\* such entry, or a failing get (caught and printed), gives None ({}).
get_by_id(st, restaurant_id, storageFails) ==
  LET ready == IF st.handle = "None" THEN create_or_get_collection(st) ELSE st
      found == {e \in ready.coll.entries : e.id = RestaurantId(restaurant_id)}
  IN [store |-> ready, raised |-> "",
      result |-> IF storageFails \/ found = {} THEN {}
                 ELSE {CHOOSE e \in found : TRUE}]

\* A lookup that falls back to some entry when the name matches none.
get_restaurant_by_name_or_any(st, name, storageFails) ==
  LET found == {e \in st.coll.entries : e.metadata.name = name}
      pool == IF found = {} THEN st.coll.entries ELSE found
  IN [store |-> st,
      result |-> IF pool = {} THEN {}
                 ELSE {CHOOSE e \in pool : \A g \in pool : EntryKey(e) <= EntryKey(g)}]

\* RestaurantSearch.get_restaurant_by_name: the first entry of that name;
\* no entry, or a failing get, gives None ({}).
get_restaurant_by_name(st, name, storageFails) ==
  LET ready == IF st.handle = "None" THEN create_or_get_collection(st) ELSE st
      found == {e \in ready.coll.entries : e.metadata.name = name}
  IN [store |-> ready,
      result |-> IF storageFails \/ found = {} THEN {}
                 ELSE {CHOOSE e \in found :
                         \A g \in found : EntryKey(e) <= EntryKey(g)}]

\* --------------------------------------------------------- the agent tools
\* An optional bool argument is truthy: given and True.
ArgTrue(args, p) == p \in DOMAIN args /\ args[p]

\* An optional str argument is truthy: given and not "".
ArgTruthy(args, p) == p \in DOMAIN args /\ Truthy(args[p])

\* filter_kwargs of search_restaurants
RestaurantFilterKwargs(args) ==
  [p \in {q \in DOMAIN args :
            /\ q \in {"price_level", "zone", "has_vegetarian", "has_vegan",
                      "has_gluten_free", "has_takeaway", "has_bar", "has_menu",
                      "allow_reservations"}
            /\ q \in {"price_level", "zone"} => Truthy(args[q])} |-> args[p]]

\* filter_kwargs of search_dishes
DishFilterKwargs(args) ==
  [p \in {q \in DOMAIN args :
            /\ q \in {"restaurant_name", "zone", "price_level", "has_vegetarian",
                      "has_vegan", "has_gluten_free", "has_halal",
                      "has_lactose_free", "category"}
            /\ q \in {"restaurant_name", "zone", "price_level", "category"}
                 => Truthy(args[q])} |-> args[p]]

\* A time filter for every open_now or open_at_time that is passed.
TimeFilteredWhenPassed(args) ==
  "open_now" \in DOMAIN args \/ "open_at_time" \in DOMAIN args

\* if open_now or open_at_time
TimeFiltered(args) == ArgTrue(args, "open_now") \/ ArgTruthy(args, "open_at_time")

\* The wall clock is read when the time filter applies and no time is given.
ClockConsulted(args) == TimeFiltered(args) /\ ~ArgTruthy(args, "open_at_time")

\* check_time = open_at_time if open_at_time else now.strftime("%H:%M")
CheckTime(args, clock) ==
  IF ArgTruthy(args, "open_at_time") THEN args.open_at_time ELSE clock

\* A time test that looks at the opening time only.
OpenAtOpeningOnly(meta, check_time) == StrLeq(meta.opening_time, check_time)

\* opening and closing and opening <= check_time <= closing
OpenAt(meta, check_time) ==
  /\ Truthy(meta.opening_time)
  /\ Truthy(meta.closing_time)
  /\ StrLeq(meta.opening_time, check_time)
  /\ StrLeq(check_time, meta.closing_time)

\* The concatenation of a list of texts.
RECURSIVE Concat(_)
Concat(texts) == IF texts = <<>> THEN <<>> ELSE Head(texts) \o Concat(Tail(texts))

\* The block of one restaurant in the tool's answer.
RestaurantBlock(result) ==
  <<"\n## ">> \o result.metadata.name \o <<"\n">>
    \o result.document \o <<"\n">>
    \o (IF Truthy(result.metadata.phone)
        THEN <<"Phone: ">> \o Str(result.metadata.phone) \o <<"\n">> ELSE <<>>)
    \o (IF Truthy(result.metadata.website_url)
        THEN <<"Website: ">> \o Str(result.metadata.website_url) \o <<"\n">> ELSE <<>>)

\* An initialisation that constructs and loads a facade at every call (the
\* source then not answering when no fetch was foreseen).
tool_init_always(d, f, inst, source) ==
  [constructed |-> TRUE]
    @@ load_and_index(d, NewFacade, IF "fetch" \in DOMAIN source THEN FetchFailed ELSE source,
                      FALSE, TopNDefault, "none", "none")

\* "Initialize search" of the three tools: the singleton, or a new facade on
\* which load_and_index() is called when there is none.
tool_init(d, f, inst, source) ==
  IF inst = "None"
  THEN [constructed |-> TRUE]
         @@ load_and_index(d, NewFacade, source, FALSE, TopNDefault, "none", "none")
  ELSE [db |-> d, facade |-> f, raised |-> "", constructed |-> FALSE]

\* search_restaurants after its "Initialize search" step gave init.
SearchRestaurantsAfterInit(init, query, n_results, args, clock, strict) ==
  LET filter_kwargs == RestaurantFilterKwargs(args)
      r == search(Store(init.db.restaurants, init.facade.vector_store),
                  query, n_results, filter_kwargs, strict)
      d1 == [init.db EXCEPT !.restaurants = r.store.coll]
      f1 == [init.facade EXCEPT !.vector_store = r.store.handle]
      check_time == CheckTime(args, clock)
      results == IF TimeFiltered(args)
                 THEN SelectSeq(r.results, LAMBDA x : OpenAt(x.metadata, check_time))
                 ELSE r.results
      formatted == <<"<valid>\n">>
                     \o Concat([i \in DOMAIN results |-> RestaurantBlock(results[i])])
                     \o <<"</valid>">>
  IN IF init.raised # ""
     THEN [db |-> init.db, facade |-> init.facade, constructed |-> init.constructed,
           stage |-> "init", raised |-> init.raised, filter_kwargs |-> filter_kwargs, where |-> {},
           found |-> <<>>, results |-> <<>>, output |-> <<>>]
     ELSE IF r.raised # ""
     THEN [db |-> d1, facade |-> f1, constructed |-> init.constructed,
           stage |-> "search", raised |-> r.raised,
           filter_kwargs |-> filter_kwargs, where |-> r.where,
           found |-> <<>>, results |-> <<>>, output |-> <<>>]
     ELSE [db |-> d1, facade |-> f1, constructed |-> init.constructed,
           stage |-> "done", raised |-> "",
           filter_kwargs |-> filter_kwargs, where |-> r.where,
           found |-> r.results, results |-> results, output |-> formatted]

\* The tool search_restaurants(query, n_results, **args): storage and facade
\* afterwards, what the facade returned (found), what is left after the time
\* filter (results), and the answer text or the exception.
search_restaurants(d, f, inst, source, query, n_results, args, clock, strict) ==
  SearchRestaurantsAfterInit(tool_init(d, f, inst, source),
                             query, n_results, args, clock, strict)

\* A grouping that opens a new group for every result.
AddToGroupAlwaysNew(groups, result) ==
  Append(groups, [rest_name |-> result.metadata.restaurant_name, dishes |-> <<result>>])

\* dishes_by_restaurant after one more result: a new key goes last, the
\* result goes to the end of its restaurant's list.
AddToGroup(groups, result) ==
  LET rest_name == result.metadata.restaurant_name
      known == \E i \in DOMAIN groups : groups[i].rest_name = rest_name
      gs == IF known THEN groups
            ELSE Append(groups, [rest_name |-> rest_name, dishes |-> <<>>])
  IN [i \in DOMAIN gs |->
        IF gs[i].rest_name = rest_name
        THEN [gs[i] EXCEPT !.dishes = Append(@, result)] ELSE gs[i]]

\* dishes_by_restaurant: the (name, results) items in insertion order.
RECURSIVE GroupByRestaurant(_)
GroupByRestaurant(results) ==
  IF results = <<>> THEN <<>>
  ELSE AddToGroup(GroupByRestaurant(SubSeq(results, 1, Len(results) - 1)),
                  results[Len(results)])

\* The heading of one restaurant and its dish lines.
DishGroupBlock(group) ==
  <<"\n## At ">> \o group.rest_name
    \o (IF Truthy(group.dishes[1].metadata.zone)
        THEN <<" (">> \o group.dishes[1].metadata.zone \o <<" zone)">> ELSE <<>>)
    \o <<"\n">>
    \o Concat([i \in DOMAIN group.dishes |->
                 <<"- ">> \o group.dishes[i].document \o <<"\n">>])

\* search_dishes after its "Initialize search" step gave init.
SearchDishesAfterInit(init, query, n_results, args, strict) ==
  LET filter_kwargs == DishFilterKwargs(args)
      r == search_dishes(Store(init.db.dishes, init.facade.dish_vector_store),
                         query, n_results, filter_kwargs, strict)
      d1 == [init.db EXCEPT !.dishes = r.store.coll]
      f1 == [init.facade EXCEPT !.dish_vector_store = r.store.handle]
      groups == GroupByRestaurant(r.results)
      formatted == <<"<valid>\n">>
                     \o Concat([i \in DOMAIN groups |-> DishGroupBlock(groups[i])])
                     \o <<"</valid>">>
  IN IF init.raised # ""
     THEN [db |-> init.db, facade |-> init.facade, constructed |-> init.constructed,
           stage |-> "init", raised |-> init.raised, filter_kwargs |-> filter_kwargs, where |-> {},
           results |-> <<>>, output |-> <<>>]
     ELSE IF r.raised # ""
     THEN [db |-> d1, facade |-> f1, constructed |-> init.constructed,
           stage |-> "search", raised |-> r.raised,
           filter_kwargs |-> filter_kwargs, where |-> r.where,
           results |-> <<>>, output |-> <<>>]
     ELSE [db |-> d1, facade |-> f1, constructed |-> init.constructed,
           stage |-> "done", raised |-> "",
           filter_kwargs |-> filter_kwargs, where |-> r.where,
           results |-> r.results, output |-> formatted]

\* The tool search_dishes(query, n_results, **args)
tool_search_dishes(d, f, inst, source, query, n_results, args, strict) ==
  SearchDishesAfterInit(tool_init(d, f, inst, source), query, n_results, args, strict)

\* Floats are fixed-point integers: coordinates in microdegrees, angles in
\* milliradians, lengths in metres, the cosine in thousandths, all truncated.
Abs(x) == IF x < 0 THEN 0 - x ELSE x

\* |delta| * 111320 for a difference in microdegrees, in metres.
DegreesToMetres(delta) ==
  LET a == Abs(delta)
      perTenth == MetersPerDegree \div 10
  IN (a \div 100000) * perTenth + ((a % 100000) * perTenth) \div 100000

\* np.radians of an angle in microdegrees, in milliradians.
Radians(a) == ((Abs(a) \div 1000) * 17453) \div 1000000

\* np.cos of an angle in milliradians, in thousandths (its series to x^6).
Cos(x) ==
  LET x2 == (x * x) \div 1000
      x4 == (x2 * x2) \div 1000
      x6 == (x4 * x2) \div 1000
  IN 1000 - x2 \div 2 + x4 \div 24 - x6 \div 720

\* The integer square root, by bisection on lo..hi.
RECURSIVE SqrtIn(_, _, _)
SqrtIn(n, lo, hi) ==
  IF lo >= hi THEN lo
  ELSE LET mid == (lo + hi + 1) \div 2
       IN IF mid * mid <= n THEN SqrtIn(n, mid, hi) ELSE SqrtIn(n, lo, mid - 1)

\* np.sqrt(a**2 + b**2); lengths over 30 km are squared in kilometres.
Hypot(a, b) ==
  IF a < 30000 /\ b < 30000 THEN SqrtIn(a * a + b * b, 0, 46340)
  ELSE 1000 * SqrtIn((a \div 1000) * (a \div 1000) + (b \div 1000) * (b \div 1000), 0, 46340)

Digit(n) ==
  CASE n = 0 -> "0" [] n = 1 -> "1" [] n = 2 -> "2" [] n = 3 -> "3" [] n = 4 -> "4"
    [] n = 5 -> "5" [] n = 6 -> "6" [] n = 7 -> "7" [] n = 8 -> "8" [] OTHER -> "9"

RECURSIVE Digits(_)
Digits(n) == IF n < 10 THEN <<Digit(n)>> ELSE Digits(n \div 10) \o <<Digit(n % 10)>>

\* str() of a float given in tenths
FloatStr(tenths) == Digits(tenths \div 10) \o <<".">> \o <<Digit(tenths % 10)>>

\* A walking time that scales the longitude by the starting point's latitude.
WalkingMinutesFromOrigin(from_meta, to_meta) ==
  LET lat_m == DegreesToMetres(to_meta.latitude - from_meta.latitude)
      lon_m == (DegreesToMetres(to_meta.longitude - from_meta.longitude)
                  * Cos(Radians(from_meta.latitude))) \div 1000
  IN (20 * Hypot(lat_m, lon_m) + WalkingSpeed) \div (2 * WalkingSpeed)

\* np.round(distance_m / 69, 1), in tenths of a minute
WalkingMinutes(from_meta, to_meta) ==
  LET avg_lat == Radians((from_meta.latitude + to_meta.latitude) \div 2)
      lat_m == DegreesToMetres(to_meta.latitude - from_meta.latitude)
      lon_m == (DegreesToMetres(to_meta.longitude - from_meta.longitude) * Cos(avg_lat))
                 \div 1000
      distance_m == Hypot(lat_m, lon_m)
  IN (20 * distance_m + WalkingSpeed) \div (2 * WalkingSpeed)

NotFoundMessage == <<"Restaurant not found">>

\* get_walking_time after its "Initialize search" step gave init.
WalkingTimeAfterInit(init, from_restaurant, to_restaurant, failFrom, failTo) ==
  LET a == get_restaurant_by_name(Store(init.db.restaurants, init.facade.vector_store),
                                  from_restaurant, failFrom)
      b == get_restaurant_by_name(a.store, to_restaurant, failTo)
      d1 == [init.db EXCEPT !.restaurants = b.store.coll]
      f1 == [init.facade EXCEPT !.vector_store = b.store.handle]
      from_rest == a.result
      to_rest == b.result
      time_mins == WalkingMinutes((CHOOSE e \in from_rest : TRUE).metadata,
                                  (CHOOSE e \in to_rest : TRUE).metadata)
  IN IF init.raised # ""
     THEN [db |-> init.db, facade |-> init.facade, constructed |-> init.constructed,
           stage |-> "init", raised |-> init.raised, from_rest |-> {}, to_rest |-> {}, output |-> <<>>]
     ELSE IF from_rest = {} \/ to_rest = {}
     THEN [db |-> d1, facade |-> f1, constructed |-> init.constructed,
           stage |-> "done", raised |-> "",
           from_rest |-> from_rest, to_rest |-> to_rest, output |-> NotFoundMessage]
     ELSE [db |-> d1, facade |-> f1, constructed |-> init.constructed,
           stage |-> "done", raised |-> "",
           from_rest |-> from_rest, to_rest |-> to_rest,
           output |-> <<"<valid>\nWalking time from ">> \o from_restaurant
                        \o <<" to ">> \o to_restaurant \o <<": ">>
                        \o FloatStr(time_mins) \o <<" minutes\n</valid>">>]

\* The tool get_walking_time(from_restaurant, to_restaurant)
get_walking_time(d, f, inst, source, from_restaurant, to_restaurant, failFrom, failTo) ==
  WalkingTimeAfterInit(tool_init(d, f, inst, source),
                       from_restaurant, to_restaurant, failFrom, failTo)

\* ------------------------------------------------------ the callers' inputs
\* The values a caller passes for an optional parameter.
ParamValues(p) ==
  CASE p = "price_level" -> {<<"low">>, <<>>}
    [] p = "zone" -> {<<"north">>, <<>>}
    [] p = "restaurant_name" -> {<<"Andreu">>, <<>>}
    [] p = "category" -> {<<"dessert">>, <<>>}
    [] p = "latitude" -> {41613362}
    [] p = "longitude" -> {2345123}
    [] p = "opening_time" -> {Time("0", "9", "0", "0"), <<>>}
    [] p = "closing_time" -> {Time("2", "1", "0", "0"), <<>>}
    [] p = "open_at_time" -> {Time("1", "0", "0", "0"), Time("2", "2", "0", "0"), <<>>}
    [] OTHER -> BOOLEAN

\* The keyword arguments over params with at most n of them given.
RECURSIVE ArgSets(_, _)
ArgSets(params, n) ==
  IF params = {} \/ n = 0 THEN {NoArgs}
  ELSE LET p == CHOOSE q \in params : TRUE
       IN ArgSets(params \ {p}, n)
            \cup {(p :> v) @@ rest : v \in ParamValues(p),
                                     rest \in ArgSets(params \ {p}, n - 1)}

FlagParams ==
  {"has_vegetarian", "has_vegan", "has_gluten_free", "has_takeaway", "has_bar",
   "has_menu", "allow_reservations"}

DishFlagParams ==
  {"has_vegetarian", "has_vegan", "has_gluten_free", "has_halal", "has_lactose_free"}

\* The optional parameters of RestaurantSearch.search
SearchArgs ==
  ArgSets({"price_level", "zone", "latitude", "longitude", "opening_time",
           "closing_time"} \cup FlagParams, MaxFilters)

\* The optional parameters of RestaurantSearch.search_dishes and of the tool
SearchDishesArgs ==
  ArgSets({"restaurant_name", "zone", "price_level", "category"} \cup DishFlagParams,
          MaxFilters)

\* The optional parameters of the tool search_restaurants
SearchRestaurantsArgs ==
  ArgSets({"price_level", "zone", "open_now", "open_at_time"} \cup FlagParams, MaxFilters)

\* What the Europe/Madrid wall clock shows when it is read.
Clocks == {Time("1", "0", "0", "0"), Time("2", "2", "0", "0")}
ClockUnread == <<>>
ClockChoices(args) == IF ClockConsulted(args) THEN Clocks ELSE {ClockUnread}

\* Whether the storage release in use rejects a where dict of several fields;
\* it matters for such a dict only.
StrictChoices(where) ==
  IF Cardinality(DOMAIN where) > 1 THEN BOOLEAN ELSE {FALSE}

\* The names callers ask get_walking_time about.
NameChoices ==
  {SheetRestaurant(i).name : i \in RestIds} \cup {<<"andreu">>, <<"Nowhere">>}

\* The ids callers ask get_restaurant about: those of the sheet and one more.
IdChoices == 1..(NumRestaurants + 1)

\* What the remote source answers to a tool's first call; it is not asked
\* when the singleton exists.
Unasked == [fetch |-> "none"]
LazySources == IF instance = "None" THEN Sources ELSE {Unasked}

\* ----------------------------------------------------- the tools' machine
ToolLoaded(source) ==
  \E init \in {tool_init(db, facade, instance, source)} :
    loaded \/ (init.constructed /\ init.raised = "")

\* search.search(query, n_results, **args) on the singleton facade
FacadeSearch(query, n_results, args, strict) ==
  /\ pc = "idle"
  /\ instance = "facade"
  /\ \E r \in {search(RestaurantStore, query, n_results, args, strict)} :
       /\ db' = [db EXCEPT !.restaurants = r.store.coll]
       /\ facade' = [facade EXCEPT !.vector_store = r.store.handle]
       /\ lastOp' = [op |-> "search", query |-> query, n_results |-> n_results,
                     args |-> args, strict |-> strict, where |-> r.where,
                     raised |-> r.raised, results |-> r.results]
  /\ pc' = "done"
  /\ UNCHANGED <<instance, loaded>>
  /\ UNCHANGED web

\* search.search_dishes(query, n_results, **args) on the singleton facade
FacadeSearchDishes(query, n_results, args, strict) ==
  /\ pc = "idle"
  /\ instance = "facade"
  /\ \E r \in {search_dishes(DishStore, query, n_results, args, strict)} :
       /\ db' = [db EXCEPT !.dishes = r.store.coll]
       /\ facade' = [facade EXCEPT !.dish_vector_store = r.store.handle]
       /\ lastOp' = [op |-> "search_dishes", query |-> query, n_results |-> n_results,
                     args |-> args, strict |-> strict, where |-> r.where,
                     raised |-> r.raised, results |-> r.results]
  /\ pc' = "done"
  /\ UNCHANGED <<instance, loaded>>
  /\ UNCHANGED web

\* search.get_restaurant(restaurant_id) on the singleton facade
GetRestaurant(restaurant_id, storageFails) ==
  /\ pc = "idle"
  /\ instance = "facade"
  /\ \E r \in {get_by_id(RestaurantStore, restaurant_id, storageFails)} :
       /\ db' = [db EXCEPT !.restaurants = r.store.coll]
       /\ facade' = [facade EXCEPT !.vector_store = r.store.handle]
       /\ lastOp' = [op |-> "get_restaurant", restaurant_id |-> restaurant_id,
                     storageFails |-> storageFails, raised |-> r.raised,
                     result |-> r.result]
  /\ pc' = "done"
  /\ UNCHANGED <<instance, loaded>>
  /\ UNCHANGED web

\* search.get_restaurant_by_name(name) on the singleton facade
GetRestaurantByName(name, storageFails) ==
  /\ pc = "idle"
  /\ instance = "facade"
  /\ \E r \in {get_restaurant_by_name(RestaurantStore, name, storageFails)} :
       /\ db' = [db EXCEPT !.restaurants = r.store.coll]
       /\ facade' = [facade EXCEPT !.vector_store = r.store.handle]
       /\ lastOp' = [op |-> "get_restaurant_by_name", name |-> name,
                     storageFails |-> storageFails, raised |-> "",
                     result |-> r.result]
  /\ pc' = "done"
  /\ UNCHANGED <<instance, loaded>>
  /\ UNCHANGED web

\* The agent calls the tool search_restaurants.
SearchRestaurants(source, query, n_results, args, clock, strict) ==
  /\ pc = "idle"
  /\ \E r \in {search_restaurants(db, facade, instance, source, query, n_results,
                 args, clock, strict)} :
       /\ db' = r.db
       /\ facade' = r.facade
       /\ lastOp' = [op |-> "tool_search_restaurants", source |-> source, query |-> query,
                     n_results |-> n_results, args |-> args, clock |-> clock,
                     strict |-> strict, constructed |-> r.constructed,
                     before |-> [db |-> db, facade |-> facade, instance |-> instance],
                     stage |-> r.stage, filter_kwargs |-> r.filter_kwargs, where |-> r.where,
                     raised |-> r.raised, found |-> r.found, results |-> r.results,
                     output |-> r.output]
  /\ instance' = "facade"
  /\ loaded' = ToolLoaded(source)
  /\ pc' = "done"
  /\ UNCHANGED web

\* The agent calls the tool search_dishes.
SearchDishes(source, query, n_results, args, strict) ==
  /\ pc = "idle"
  /\ \E r \in {tool_search_dishes(db, facade, instance, source, query, n_results,
                 args, strict)} :
       /\ db' = r.db
       /\ facade' = r.facade
       /\ lastOp' = [op |-> "tool_search_dishes", source |-> source, query |-> query,
                     n_results |-> n_results, args |-> args, strict |-> strict,
                     before |-> [db |-> db, facade |-> facade, instance |-> instance],
                     constructed |-> r.constructed, stage |-> r.stage,
                     filter_kwargs |-> r.filter_kwargs,
                     where |-> r.where, raised |-> r.raised, results |-> r.results,
                     output |-> r.output]
  /\ instance' = "facade"
  /\ loaded' = ToolLoaded(source)
  /\ pc' = "done"
  /\ UNCHANGED web

\* The agent calls the tool get_walking_time.
GetWalkingTime(source, from_restaurant, to_restaurant, failFrom, failTo) ==
  /\ pc = "idle"
  /\ \E r \in {get_walking_time(db, facade, instance, source, from_restaurant,
                 to_restaurant, failFrom, failTo)} :
       /\ db' = r.db
       /\ facade' = r.facade
       /\ lastOp' = [op |-> "get_walking_time", source |-> source,
                     from_restaurant |-> from_restaurant, to_restaurant |-> to_restaurant,
                     failFrom |-> failFrom, failTo |-> failTo,
                     before |-> [db |-> db, facade |-> facade, instance |-> instance],
                     constructed |-> r.constructed, stage |-> r.stage,
                     raised |-> r.raised,
                     from_rest |-> r.from_rest, to_rest |-> r.to_rest, output |-> r.output]
  /\ instance' = "facade"
  /\ loaded' = ToolLoaded(source)
  /\ pc' = "done"
  /\ UNCHANGED web

NextTools ==
  \/ Construct
  \/ /\ pc = "idle" /\ instance = "facade"
     /\ \E query \in Queries, n_results \in 1..MaxResults, args \in SearchArgs :
          \E strict \in StrictChoices(SearchWhere(args)) :
            FacadeSearch(query, n_results, args, strict)
  \/ /\ pc = "idle" /\ instance = "facade"
     /\ \E query \in Queries, n_results \in 1..MaxResults, args \in SearchDishesArgs :
          \E strict \in StrictChoices(SearchDishesWhere(args)) :
            FacadeSearchDishes(query, n_results, args, strict)
  \/ /\ pc = "idle" /\ instance = "facade"
     /\ \E restaurant_id \in IdChoices, storageFails \in BOOLEAN :
          GetRestaurant(restaurant_id, storageFails)
  \/ /\ pc = "idle" /\ instance = "facade"
     /\ \E name \in NameChoices, storageFails \in BOOLEAN :
          GetRestaurantByName(name, storageFails)
  \/ /\ pc = "idle"
     /\ \E source \in LazySources, query \in Queries, n_results \in 1..MaxResults,
           args \in SearchRestaurantsArgs :
          \E clock \in ClockChoices(args),
             strict \in StrictChoices(RestaurantFilterKwargs(args)) :
            SearchRestaurants(source, query, n_results, args, clock, strict)
  \/ /\ pc = "idle"
     /\ \E source \in LazySources, query \in Queries, n_results \in 1..MaxResults,
           args \in SearchDishesArgs :
          \E strict \in StrictChoices(DishFilterKwargs(args)) :
            SearchDishes(source, query, n_results, args, strict)
  \/ /\ pc = "idle"
     /\ \E source \in LazySources, from_restaurant \in NameChoices,
           to_restaurant \in NameChoices, failFrom \in BOOLEAN, failTo \in BOOLEAN :
          GetWalkingTime(source, from_restaurant, to_restaurant, failFrom, failTo)
  \/ Return

\* The agent's tools and the facade's searches in one process.
SpecTools == Init /\ [][NextTools]_vars

\* ------------------------------------- the loader and the builders, alone
\* The opening_hours cells considered: open-close, with blanks round the
\* dash, absent, without a dash, with one side missing, with two dashes.
HoursChoices ==
  {Time("0", "9", "0", "0") \o <<"-">> \o Time("2", "1", "0", "0"),
   Time("1", "2", "0", "0") \o <<" ", "-", " ">> \o Time("1", "6", "0", "0"),
   NaN,
   Time("2", "1", "0", "0"),
   Time("0", "9", "0", "0") \o <<"-">>,
   <<"-">> \o Time("2", "1", "0", "0"),
   Time("0", "9", "0", "0") \o <<"-">> \o Time("1", "3", "0", "0")
     \o <<"-">> \o Time("1", "7", "0", "0")}

\* The restaurant rows make_metadata is given: a loaded row, any hours cell.
MetadataRows ==
  {[BackfillZone(SheetRestaurant(i)) EXCEPT !.opening_hours = h] :
     i \in RestIds, h \in HoursChoices}

\* The workbooks the loader is given: those above, and the same with the last
\* row of the dish_keywords sheet missing.
LoaderWorkbooks ==
  Workbooks \cup {[wb EXCEPT !.dish_keywords = SubSeq(@, 1, NumAssoc - 1)] :
                    wb \in Workbooks}

\* The top_n values the document builder is given.
DocTopN == (0..NumAssoc) \cup {TopNDefault}

\* load_restaurant_data() on the workbook the remote source serves
LoadRestaurantData(wb) ==
  /\ pc = "idle"
  /\ lastOp' = [op |-> "load_restaurant_data", wb |-> wb,
                result |-> load_restaurant_data(wb)]
  /\ pc' = "done"
  /\ UNCHANGED <<db, facade, instance, loaded>>
  /\ UNCHANGED web

\* make_metadata(row)
MakeMetadata(row) ==
  /\ pc = "idle"
  /\ lastOp' = [op |-> "make_metadata", row |-> row, result |-> make_metadata(row)]
  /\ pc' = "done"
  /\ UNCHANGED <<db, facade, instance, loaded>>
  /\ UNCHANGED web

\* make_restaurant_doc_with_dishes(row, df_dishes, top_n) on loaded tables
MakeRestaurantDoc(row, df_dishes, top_n) ==
  /\ pc = "idle"
  /\ lastOp' = [op |-> "make_restaurant_doc_with_dishes", row |-> row,
                df_dishes |-> df_dishes, top_n |-> top_n,
                raised |-> IF RestaurantDocRaises(row, df_dishes) THEN "KeyError" ELSE "",
                result |-> IF RestaurantDocRaises(row, df_dishes) THEN <<>>
                           ELSE make_restaurant_doc_with_dishes(row, df_dishes, top_n)]
  /\ pc' = "done"
  /\ UNCHANGED <<db, facade, instance, loaded>>
  /\ UNCHANGED web

NextBuilders ==
  \/ /\ pc = "idle"
     /\ \E wb \in LoaderWorkbooks : LoadRestaurantData(wb)
  \/ /\ pc = "idle"
     /\ \E row \in MetadataRows : MakeMetadata(row)
  \/ /\ pc = "idle"
     /\ \E t \in LoadedTables, top_n \in DocTopN :
          \E k \in DOMAIN t.df_restaurants :
            MakeRestaurantDoc(t.df_restaurants[k], t.df_dishes, top_n)
  \/ Return

\* The loader and the two restaurant builders called on their own.
SpecBuilders == Init /\ [][NextBuilders]_vars

\* ------------------------------------------------- the web app's streams
\* q.put(None): the end-of-stream item.
None == [type |-> "None"]

\* POST /send: a new stream id, its queue registered, the producer thread
\* started.
Send(s) ==
  /\ producer[s] = "unstarted"
  /\ streams' = streams \cup {s}
  /\ queues' = [queues EXCEPT ![s] = <<>>]
  /\ content' = [content EXCEPT ![s] = <<>>]
  /\ producer' = [producer EXCEPT ![s] = "streaming"]
  /\ UNCHANGED <<produced, consumer, emitted>>
  /\ UNCHANGED <<db, facade, instance, loaded, pc, lastOp>>

\* process(): a chunk with a text delta arrives; content += delta and the
\* content so far is put (the k-th delta is written k).
ProduceContent(s) ==
  /\ producer[s] = "streaming"
  /\ Len(content[s]) < MaxDeltas
  /\ \E item \in {[type |-> "content",
                   content |-> Append(content[s], Len(content[s]) + 1)]} :
       /\ content' = [content EXCEPT ![s] = item.content]
       /\ queues' = [queues EXCEPT ![s] = Append(@, item)]
       /\ produced' = [produced EXCEPT ![s] = Append(@, item)]
  /\ UNCHANGED <<streams, producer, consumer, emitted>>
  /\ UNCHANGED <<db, facade, instance, loaded, pc, lastOp>>

\* process(): the response generator is exhausted; q.put({'type': 'done'}).
ProduceDone(s) ==
  /\ producer[s] = "streaming"
  /\ queues' = [queues EXCEPT ![s] = Append(@, [type |-> "done"])]
  /\ produced' = [produced EXCEPT ![s] = Append(@, [type |-> "done"])]
  /\ producer' = [producer EXCEPT ![s] = "finally"]
  /\ UNCHANGED <<streams, content, consumer, emitted>>
  /\ UNCHANGED <<db, facade, instance, loaded, pc, lastOp>>

\* A producer thread that ends on an exception without the finally clause.
ProduceRaiseWithoutFinally(s) ==
  /\ producer[s] = "streaming"
  /\ producer' = [producer EXCEPT ![s] = "raised"]
  /\ UNCHANGED <<streams, queues, content, produced, consumer, emitted>>
  /\ UNCHANGED <<db, facade, instance, loaded, pc, lastOp>>

\* process(): the response generator raises; control goes to the finally
\* clause with the exception pending.
ProduceRaise(s) ==
  /\ producer[s] = "streaming"
  /\ producer' = [producer EXCEPT ![s] = "finally_raising"]
  /\ UNCHANGED <<streams, queues, content, produced, consumer, emitted>>
  /\ UNCHANGED <<db, facade, instance, loaded, pc, lastOp>>

\* process(): finally q.put(None); the thread ends, returning or raising.
ProduceSentinel(s) ==
  /\ producer[s] \in {"finally", "finally_raising"}
  /\ queues' = [queues EXCEPT ![s] = Append(@, None)]
  /\ produced' = [produced EXCEPT ![s] = Append(@, None)]
  /\ producer' = [producer EXCEPT ![s] =
                    IF producer[s] = "finally" THEN "returned" ELSE "raised"]
  /\ UNCHANGED <<streams, content, consumer, emitted>>
  /\ UNCHANGED <<db, facade, instance, loaded, pc, lastOp>>

\* GET /stream/{s}: generate() starts; q = streams.get(s), and it returns at
\* once when there is no queue. The page opens one connection per stream id,
\* so none is open on s while this one starts.
Connect(s) ==
  /\ consumer[s] # "waiting"
  /\ consumer' = [consumer EXCEPT ![s] =
                    IF s \in streams THEN "waiting" ELSE "no_stream"]
  /\ UNCHANGED <<streams, queues, content, producer, produced, emitted>>
  /\ UNCHANGED <<db, facade, instance, loaded, pc, lastOp>>

\* generate(): msg = q.get() (blocking while the queue is empty); None breaks
\* the loop and the finally clause pops the stream id; any other item is
\* yielded.
Consume(s) ==
  /\ consumer[s] = "waiting"
  /\ queues[s] # <<>>
  /\ queues' = [queues EXCEPT ![s] = Tail(@)]
  /\ IF Head(queues[s]) = None
     THEN /\ consumer' = [consumer EXCEPT ![s] = "ended"]
          /\ streams' = streams \ {s}
          /\ UNCHANGED emitted
     ELSE /\ emitted' = [emitted EXCEPT ![s] = Append(@, Head(queues[s]))]
          /\ UNCHANGED <<consumer, streams>>
  /\ UNCHANGED <<content, producer, produced>>
  /\ UNCHANGED <<db, facade, instance, loaded, pc, lastOp>>

NextStream ==
  \/ \E s \in 1..MaxStreams : Send(s)
  \/ \E s \in 1..MaxStreams : ProduceContent(s)
  \/ \E s \in 1..MaxStreams : ProduceDone(s)
  \/ \E s \in 1..MaxStreams : ProduceRaise(s)
  \/ \E s \in 1..MaxStreams : ProduceSentinel(s)
  \/ \E s \in 1..MaxStreams : Connect(s)
  \/ \E s \in 1..MaxStreams : Consume(s)

\* The /send and /stream handlers and the producer threads.
SpecStream == Init /\ [][NextStream]_vars

\* The same with the threads scheduled fairly: a producer thread that can take
\* a step takes one (the streamed answer ends or fails), and a generator whose
\* q.get() can return goes on.
SpecStreamLive ==
  /\ SpecStream
  /\ \A s \in 1..MaxStreams :
       /\ WF_vars(ProduceContent(s) \/ ProduceDone(s) \/ ProduceRaise(s)
                    \/ ProduceSentinel(s))
       /\ WF_vars(Consume(s))

\* ------------------------------------------------ properties of the stores
\* The batch the last index call built from its tables.
LastBatch ==
  IF lastOp.op = "index_restaurants"
  THEN RestaurantBatch(lastOp.table.df_restaurants, lastOp.table.df_dishes, lastOp.top_n)
  ELSE DishBatch(lastOp.table.df_dishes, lastOp.table.df_restaurants)

\* The collection the last index call worked on, as it is now.
LastCollection ==
  IF lastOp.op = "index_restaurants" THEN db.restaurants ELSE db.dishes

IndexCallDone ==
  pc = "done" /\ lastOp.op \in {"index_restaurants", "index_dishes"}

\* C1: Upsert idempotence. After index_restaurants(T) without force_reindex has
\* returned, the collection holds exactly one entry per id, every entry of T
\* is the document and metadata a single pass builds, and calling
\* index_restaurants(T) again leaves count() and every entry as they are; a
\* call whose entries were all there before changes nothing.
C1_UpsertIdempotent ==
  (IndexCallDone /\ lastOp.op = "index_restaurants"
     /\ ~lastOp.force_reindex /\ lastOp.raised = "") =>
    LET again == index_restaurants(RestaurantStore, lastOp.table.df_restaurants,
                                   lastOp.table.df_dishes, lastOp.top_n, FALSE, "none")
    IN /\ again.raised = ""
       /\ count(again.store) = count(RestaurantStore)
       /\ again.store.coll.entries = db.restaurants.entries
       /\ Range(LastBatch) \subseteq db.restaurants.entries
       /\ \A e, g \in db.restaurants.entries : e.id = g.id => e = g
       /\ Cardinality(Ids(db.restaurants.entries)) = count(RestaurantStore)
       /\ (Range(LastBatch) \subseteq lastOp.before.entries
             => db.restaurants.entries = lastOp.before.entries)

\* C1 witness: a second pass over a table already indexed, next to an entry of
\* another table.
C1_Witness ==
  /\ IndexCallDone /\ lastOp.op = "index_restaurants"
  /\ ~lastOp.force_reindex /\ lastOp.raised = ""
  /\ LastBatch # <<>>
  /\ Range(LastBatch) \subseteq lastOp.before.entries
  /\ lastOp.before.entries # Range(LastBatch)

\* C2: Never-prune. After an index call without force_reindex on either store,
\* every entry that was in the collection before and whose id is not in the
\* call's batch is still there unchanged, and the id set of the collection is
\* the old id set united with the batch's id set (a call that raised left the
\* collection's entries as they were).
C2_NeverPrune ==
  (IndexCallDone /\ ~lastOp.force_reindex) =>
    IF lastOp.raised = ""
    THEN /\ \A e \in lastOp.before.entries :
              e.id \notin Ids(Range(LastBatch)) => e \in LastCollection.entries
         /\ Ids(LastCollection.entries)
              = Ids(lastOp.before.entries) \cup Ids(Range(LastBatch))
    ELSE LastCollection.entries = lastOp.before.entries

\* C2 witness: a dish batch that adds an id while an older id outside the
\* batch is in the collection.
C2_Witness ==
  /\ IndexCallDone /\ lastOp.op = "index_dishes"
  /\ ~lastOp.force_reindex /\ lastOp.raised = ""
  /\ Ids(lastOp.before.entries) \ Ids(Range(LastBatch)) # {}
  /\ Ids(Range(LastBatch)) \ Ids(lastOp.before.entries) # {}

\* The rows the last index call was given.
LastRows ==
  IF lastOp.op = "index_restaurants" THEN Len(lastOp.table.df_restaurants)
  ELSE Len(lastOp.table.df_dishes.rows)

\* C3: for both stores, count() right after an index call with
\* force_reindex=true that returned equals the number of input rows.
C3_ForceCountEqualsRows ==
  (IndexCallDone /\ lastOp.force_reindex /\ lastOp.raised = "") =>
    Cardinality(LastCollection.entries) = LastRows

\* ------------------------------------------------ properties of the facade
LoadCallDone == pc = "done" /\ lastOp.op = "load_and_index"

BothNonEmpty(d) ==
  Cardinality(d.restaurants.entries) > 0 /\ Cardinality(d.dishes.entries) > 0

EntriesUnchanged ==
  /\ db.restaurants.entries = lastOp.before.restaurants.entries
  /\ db.dishes.entries = lastOp.before.dishes.entries

\* C4: load_and_index without force_reindex skips (no fetch, both collections
\* unchanged, a normal return) exactly when both collections report a non-zero
\* count at the call; otherwise it fetches, and when it then returns normally
\* the restaurant collection holds the loaded table's batch and the dish
\* collection holds the dish batch.
C4_SkipIffBothIndexed ==
  (LoadCallDone /\ ~lastOp.force_reindex) =>
    /\ lastOp.skipped <=> BothNonEmpty(lastOp.before)
    /\ lastOp.skipped => EntriesUnchanged /\ ~lastOp.fetched /\ lastOp.raised = ""
    /\ ~lastOp.skipped => lastOp.fetched
    /\ (~lastOp.skipped /\ lastOp.raised = "") =>
         /\ Range(RestaurantBatch(lastOp.source.df_restaurants, lastOp.source.df_dishes,
                                  lastOp.top_n)) \subseteq db.restaurants.entries
         /\ Range(DishBatch(lastOp.source.df_dishes, lastOp.source.df_restaurants))
              \subseteq db.dishes.entries

\* C4 witness: a skipped call although the source now holds a restaurant that
\* is not indexed.
C4_Witness ==
  /\ LoadCallDone /\ ~lastOp.force_reindex /\ lastOp.skipped
  /\ lastOp.source # FetchFailed
  /\ lastOp.source.df_dishes.columns
  /\ ~(Range(RestaurantBatch(lastOp.source.df_restaurants, lastOp.source.df_dishes,
                             lastOp.top_n)) \subseteq db.restaurants.entries)

\* C4 as stated: once a load_and_index call has returned normally, every later
\* call without force_reindex leaves both collections unchanged.
C4_NoOpAfterAnyLoad ==
  (LoadCallDone /\ ~lastOp.force_reindex /\ lastOp.loaded_before) => EntriesUnchanged

\* ------------------------------------------------- properties of the search
SearchOps == {"search", "search_dishes", "tool_search_restaurants", "tool_search_dishes"}

\* A search call whose lookup in the store was reached.
SearchCallDone ==
  /\ pc = "done"
  /\ lastOp.op \in SearchOps
  /\ lastOp.op \in {"tool_search_restaurants", "tool_search_dishes"} => lastOp.stage # "init"

\* The collection the last search call queried.
SearchedEntries ==
  IF lastOp.op \in {"search", "tool_search_restaurants"}
  THEN db.restaurants.entries ELSE db.dishes.entries

\* The filter parameters of the last search call (the tool search_restaurants
\* has the two time parameters besides).
GivenFilters == DOMAIN lastOp.args \ {"open_now", "open_at_time"}

\* The chunks that follow the occurrences of marker in text, in order.
ChunksAfter(text, marker) ==
  LET at == SelectSeq([i \in 1..Len(text) |-> i], LAMBDA i : text[i] = marker)
  IN [k \in DOMAIN at |-> text[at[k] + 1]]

\* C5: Filter translation, with the str parameters read by truthiness. The
\* where passed to the store has a field = value entry for exactly the filter
\* parameters the caller gave, except price_level, zone, restaurant_name and
\* category given as "", which are left out like unset ones; a flag given as
\* False is kept with the value False; when nothing is left the store is
\* queried with no filter.
C5_FilterTranslation ==
  SearchCallDone =>
    LET kept == {p \in GivenFilters :
                   p \in {"price_level", "zone", "restaurant_name", "category"}
                     => lastOp.args[p] # <<>>}
    IN IF kept = {} THEN lastOp.where = {}
       ELSE /\ Cardinality(lastOp.where) = 1
            /\ \A w \in lastOp.where :
                 /\ DOMAIN w = kept
                 /\ \A p \in kept : w[p] = lastOp.args[p]

\* C5 witness: a facade search given a flag as False and price_level as "":
\* the where holds the flag alone.
C5_Witness ==
  /\ SearchCallDone /\ lastOp.op = "search"
  /\ DOMAIN lastOp.args = {"has_vegan", "price_level"}
  /\ lastOp.args.has_vegan = FALSE /\ lastOp.args.price_level = <<>>
  /\ lastOp.where = {[has_vegan |-> FALSE]}

\* C5 as stated: the where has an entry for exactly the parameters the caller
\* gave, whatever their values.
C5_ExactlyTheGivenParameters ==
  SearchCallDone =>
    IF GivenFilters = {} THEN lastOp.where = {}
    ELSE /\ Cardinality(lastOp.where) = 1
         /\ \A w \in lastOp.where : DOMAIN w = GivenFilters

\* C6: for every flag and every query, a search given has_X = v returns only
\* records of the collection whose metadata has has_X = v, for v true and for
\* v false.
C6_FlagFilter ==
  (SearchCallDone /\ lastOp.raised = "") =>
    \A i \in DOMAIN lastOp.results :
      /\ \E e \in SearchedEntries :
           e.id = lastOp.results[i].id /\ e.metadata = lastOp.results[i].metadata
      /\ \A p \in GivenFilters :
           p \in FlagParams \cup DishFlagParams
             => lastOp.results[i].metadata[p] = lastOp.args[p]

\* C6 witness: has_vegan=False returns a record while the collection also
\* holds a record with has_vegan true.
C6_Witness ==
  /\ SearchCallDone /\ lastOp.raised = ""
  /\ "has_vegan" \in DOMAIN lastOp.args
  /\ lastOp.args.has_vegan = FALSE
  /\ lastOp.results # <<>>
  /\ \E e \in SearchedEntries : e.metadata.has_vegan

\* The target time of the last search_restaurants call.
TargetTime ==
  IF "open_at_time" \in DOMAIN lastOp.args /\ lastOp.args.open_at_time # <<>>
  THEN lastOp.args.open_at_time ELSE lastOp.clock

TimeFilterAsked ==
  \/ "open_at_time" \in DOMAIN lastOp.args /\ lastOp.args.open_at_time # <<>>
  \/ "open_now" \in DOMAIN lastOp.args /\ lastOp.args.open_now

\* C7: in search_restaurants with a target time T (open_at_time, or the wall
\* clock when open_now is set), every restaurant in the returned block has
\* non-empty opening and closing times with opening_time <= T <= closing_time
\* as strings.
C7_OpenAtTime ==
  (pc = "done" /\ lastOp.op = "tool_search_restaurants" /\ lastOp.stage = "done"
     /\ TimeFilterAsked) =>
    LET names == ChunksAfter(lastOp.output, "\n## ")
    IN /\ Len(names) = Len(lastOp.results)
       /\ \A k \in DOMAIN names :
            /\ \E e \in db.restaurants.entries : e.metadata.name = <<names[k]>>
            /\ \A e \in db.restaurants.entries :
                 e.metadata.name = <<names[k]>> =>
                   /\ e.metadata.opening_time # <<>>
                   /\ e.metadata.closing_time # <<>>
                   /\ StrLeq(e.metadata.opening_time, TargetTime)
                   /\ StrLeq(TargetTime, e.metadata.closing_time)

\* C7 witness: the wall clock is the target, one restaurant is in the block
\* and one the facade found, without hours, is not.
C7_Witness ==
  /\ pc = "done" /\ lastOp.op = "tool_search_restaurants" /\ lastOp.stage = "done"
  /\ TimeFilterAsked /\ lastOp.clock # ClockUnread
  /\ Len(lastOp.results) = 1 /\ Len(lastOp.found) = 2
  /\ \E i \in DOMAIN lastOp.found : lastOp.found[i].metadata.opening_time = <<>>

\* C8: a search for n_results = k returns, without an error, at most k
\* entries, nearest first, also when fewer than k entries satisfy the filter
\* or the time filter removes some.
C8_AtMostKNearestFirst ==
  SearchCallDone =>
    /\ lastOp.raised = ""
    /\ Len(lastOp.results) <= lastOp.n_results
    /\ \A i, j \in DOMAIN lastOp.results :
         i < j => Distance(lastOp.query, lastOp.results[i])
                    < Distance(lastOp.query, lastOp.results[j])

\* The restaurant names of the last dish search's results, in result order.
ResultNames ==
  [i \in DOMAIN lastOp.results |-> lastOp.results[i].metadata.restaurant_name]

\* The indexes at which a restaurant is seen for the first time.
FirstSeen ==
  SelectSeq([i \in 1..Len(ResultNames) |-> i],
            LAMBDA i : \A j \in 1..(i - 1) : ResultNames[j] # ResultNames[i])

\* The answer with one heading per restaurant in first-seen order, each over
\* the results of that restaurant in result order.
GroupedAnswer ==
  <<"<valid>\n">>
    \o Concat([k \in DOMAIN FirstSeen |->
         LET first == lastOp.results[FirstSeen[k]]
             mine == SelectSeq(lastOp.results,
                               LAMBDA r : r.metadata.restaurant_name
                                            = first.metadata.restaurant_name)
         IN <<"\n## At ">> \o first.metadata.restaurant_name
              \o (IF first.metadata.zone # <<>>
                  THEN <<" (">> \o first.metadata.zone \o <<" zone)">> ELSE <<>>)
              \o <<"\n">>
              \o Concat([i \in DOMAIN mine |-> <<"- ">> \o mine[i].document \o <<"\n">>])])
    \o <<"</valid>">>

\* C9: the answer of the tool search_dishes has exactly one "At <name>"
\* heading per distinct restaurant_name of the results, the headings in the
\* order in which the restaurants are first seen in the result list, the dish
\* lines under a heading in result order; with restaurant_name=R every dish
\* is under the one heading of R.
C9_DishGrouping ==
  (pc = "done" /\ lastOp.op = "tool_search_dishes" /\ lastOp.stage = "done") =>
    LET headings == ChunksAfter(lastOp.output, "\n## At ")
    IN /\ Len(headings) = Cardinality(Range(ResultNames))
       /\ \A k \in DOMAIN headings : <<headings[k]>> = ResultNames[FirstSeen[k]]
       /\ lastOp.output = GroupedAnswer
       /\ Len(ChunksAfter(lastOp.output, "- ")) = Len(lastOp.results)
       /\ ("restaurant_name" \in DOMAIN lastOp.args
             /\ lastOp.args.restaurant_name # <<>> /\ lastOp.results # <<>>)
            => headings = lastOp.args.restaurant_name

\* C9 witness: three dishes, the first and the third of one restaurant, the
\* second of another.
C9_Witness ==
  /\ pc = "done" /\ lastOp.op = "tool_search_dishes" /\ lastOp.stage = "done"
  /\ Len(lastOp.results) = 3
  /\ ResultNames[1] = ResultNames[3]
  /\ ResultNames[1] # ResultNames[2]

\* Some indexed restaurant has that name.
Indexed(name) == \E e \in db.restaurants.entries : e.metadata.name = name

\* C10: get_walking_time(A, B) returns "Restaurant not found", without an
\* exception, whenever A or B is not the name of an indexed restaurant, and
\* returns a minutes value only when both names are.
C10_NotFound ==
  (pc = "done" /\ lastOp.op = "get_walking_time" /\ lastOp.stage = "done") =>
    /\ lastOp.raised = ""
    /\ (~Indexed(lastOp.from_restaurant) \/ ~Indexed(lastOp.to_restaurant))
         => lastOp.output = NotFoundMessage
    /\ lastOp.output # NotFoundMessage
         => /\ Indexed(lastOp.from_restaurant) /\ Indexed(lastOp.to_restaurant)
            /\ lastOp.output[Len(lastOp.output)] = " minutes\n</valid>"

\* C10 witness: the first name is indexed, the second is not.
C10_Witness ==
  /\ pc = "done" /\ lastOp.op = "get_walking_time" /\ lastOp.stage = "done"
  /\ Indexed(lastOp.from_restaurant)
  /\ ~Indexed(lastOp.to_restaurant)
  /\ ~lastOp.failFrom
  /\ lastOp.output = NotFoundMessage

\* ------------------------------------------- properties of the walking time
WalkingTimeDone ==
  pc = "done" /\ lastOp.op = "get_walking_time" /\ lastOp.stage = "done"

\* The minutes a walking-time answer reports: the text between ": " and
\* " minutes" (each restaurant name is one chunk of the answer).
ReportedMinutes(output) == SubSeq(output, 6, Len(output) - 1)

\* The entry was built from a row whose lat and lng are null: it carries the
\* 0.0 sentinel in both coordinates.
Unresolved(entry) == entry.metadata.latitude = 0 /\ entry.metadata.longitude = 0

\* C11: get_walking_time with an endpoint whose coordinates could not be
\* resolved (null lat/lng in the loaded table, 0.0 in the stored metadata)
\* does not return a computed minutes value.
C11_UnresolvedExcluded ==
  (WalkingTimeDone /\ \E e \in lastOp.from_rest \cup lastOp.to_rest : Unresolved(e))
    => lastOp.output = NotFoundMessage

\* The same question asked the other way round, in the state the call left.
ReverseWalkingTime ==
  get_walking_time(db, facade, "facade", Unasked, lastOp.to_restaurant,
                   lastOp.from_restaurant, lastOp.failTo, lastOp.failFrom)

\* C12: the walking time is symmetric. When get_walking_time(A, B) has
\* answered, get_walking_time(B, A) answers "Restaurant not found" exactly
\* when the first did, and otherwise reports the same minutes value.
C12_WalkingTimeSymmetric ==
  WalkingTimeDone =>
    /\ ReverseWalkingTime.raised = ""
    /\ (lastOp.output = NotFoundMessage) <=> (ReverseWalkingTime.output = NotFoundMessage)
    /\ lastOp.output # NotFoundMessage =>
         ReportedMinutes(ReverseWalkingTime.output) = ReportedMinutes(lastOp.output)

\* C12 witness: a walking time between two different restaurants at different
\* latitudes, more than no time at all.
C12_Witness ==
  /\ WalkingTimeDone
  /\ lastOp.output # NotFoundMessage
  /\ lastOp.from_restaurant # lastOp.to_restaurant
  /\ \E a \in lastOp.from_rest, b \in lastOp.to_rest :
       a.metadata.latitude # b.metadata.latitude
  /\ ReportedMinutes(lastOp.output) # <<"0", ".", "0">>

\* ------------------------------------------------ properties of the lookups
LookupDone ==
  pc = "done" /\ lastOp.op \in {"get_restaurant", "get_restaurant_by_name"}

\* The indexed entries the last lookup asked for.
LookedUp ==
  IF lastOp.op = "get_restaurant"
  THEN {e \in db.restaurants.entries : e.id = RestaurantId(lastOp.restaurant_id)}
  ELSE {e \in db.restaurants.entries : e.metadata.name = lastOp.name}

\* C13: get_restaurant (get_by_id) and get_restaurant_by_name never raise;
\* they return None when no indexed entry has the id or the name and when the
\* store's get fails, and otherwise one entry that has it.
C13_LookupsDegrade ==
  LookupDone =>
    /\ lastOp.raised = ""
    /\ (LookedUp = {} \/ lastOp.storageFails) => lastOp.result = {}
    /\ (LookedUp # {} /\ ~lastOp.storageFails) =>
         Cardinality(lastOp.result) = 1 /\ lastOp.result \subseteq LookedUp

\* C13 witness: the id is indexed and the store's get fails.
C13_Witness ==
  /\ LookupDone /\ lastOp.op = "get_restaurant"
  /\ LookedUp # {}
  /\ lastOp.storageFails
  /\ lastOp.result = {}

\* ----------------------------------------- properties of the failure paths
\* C14: when the workbook lacks a dish sheet (and lists some restaurant, and
\* the storage does not fail), the loaded dish table is empty and the
\* load_and_index call that fetched it returns normally, with every
\* restaurant row of the workbook indexed and no dish added.
C14_MissingDishSheetNonFatal ==
  (LoadCallDone /\ lastOp.fetched /\ lastOp.source # FetchFailed
     /\ lastOp.faultR = "none" /\ lastOp.faultD = "none"
     /\ lastOp.source.df_restaurants # <<>>
     /\ ~lastOp.source.df_dishes.columns) =>
    /\ lastOp.source.df_dishes.rows = <<>>
    /\ lastOp.raised = ""
    /\ \A k \in DOMAIN lastOp.source.df_restaurants :
         RestaurantId(lastOp.source.df_restaurants[k].id) \in Ids(db.restaurants.entries)
    /\ db.dishes.entries = lastOp.before.dishes.entries

\* C15: a storage failure during an index call, the failure of the drop that
\* force_reindex asks for included, leaves the call as an exception.
C15_IndexFailurePropagates ==
  (IndexCallDone /\ lastOp.fault # "none") => lastOp.raised # ""

\* ------------------------------- properties of the loader and the builders
MetadataDone == pc = "done" /\ lastOp.op = "make_metadata"

\* The positions of the dashes in an hours text.
DashesOf(hours) == {i \in DOMAIN hours : hours[i] = "-"}

\* An "open-close" text: one dash, something other than blanks on both sides.
WellFormedHours(hours) ==
  /\ notna(hours)
  /\ Cardinality(DashesOf(hours)) = 1
  /\ \A d \in DashesOf(hours) :
       /\ Strip(SubSeq(hours, 1, d - 1)) # <<>>
       /\ Strip(SubSeq(hours, d + 1, Len(hours))) # <<>>

\* C16: for a well-formed "open-close" hours text make_metadata gives the
\* text before the dash as opening_time and the text after it as closing_time
\* (blanks round them removed); for an absent or malformed one (no dash, a
\* missing side, more than one dash) it gives "" for both.
C16_HoursParsedOrEmpty ==
  MetadataDone =>
    IF WellFormedHours(lastOp.row.opening_hours)
    THEN \A d \in DashesOf(lastOp.row.opening_hours) :
           /\ lastOp.result.opening_time
                = Strip(SubSeq(lastOp.row.opening_hours, 1, d - 1))
           /\ lastOp.result.closing_time
                = Strip(SubSeq(lastOp.row.opening_hours, d + 1,
                               Len(lastOp.row.opening_hours)))
    ELSE lastOp.result.opening_time = <<>> /\ lastOp.result.closing_time = <<>>

LoaderDone == pc = "done" /\ lastOp.op = "load_restaurant_data"

\* The association rows of the workbook that have both a restaurant and a
\* dish keyword, as (restaurant_id, dish_id) pairs.
MatchedAssociations(wb) ==
  {<<a.restaurant_id, a.dish_id>> : a \in
     {b \in Range(wb.restaurant_dishes) :
        /\ \E r \in Range(wb.restaurants) : r.id = b.restaurant_id
        /\ \E d \in Range(wb.dish_keywords) : d.id = b.dish_id}}

\* C17: every dish row the loader returns has the restaurant_id of a row of
\* the returned restaurant table; the dish rows are exactly the association
\* rows whose restaurant id and dish id both match; and every entry
\* index_dishes builds from them names that restaurant.
C17_DishesResolve ==
  LoaderDone =>
    /\ \A d \in Range(lastOp.result.df_dishes.rows) :
         \E r \in Range(lastOp.result.df_restaurants) : r.id = d.restaurant_id
    /\ (lastOp.wb.has_restaurant_dishes /\ lastOp.wb.has_dish_keywords) =>
         {<<d.restaurant_id, d.dish_id>> : d \in Range(lastOp.result.df_dishes.rows)}
           = MatchedAssociations(lastOp.wb)
    /\ \A e \in Range(BuildDishBatch(lastOp.result.df_dishes,
                                      lastOp.result.df_restaurants)) :
         \E r \in Range(lastOp.result.df_restaurants) :
           /\ r.id = e.metadata.restaurant_id
           /\ r.name = e.metadata.restaurant_name

\* C17 witness: one association row kept, one dropped for its restaurant and
\* one dropped for its dish.
C17_Witness ==
  /\ LoaderDone
  /\ lastOp.result.df_dishes.rows # <<>>
  /\ \E a \in Range(lastOp.wb.restaurant_dishes) :
       \A r \in Range(lastOp.wb.restaurants) : r.id # a.restaurant_id
  /\ \E a \in Range(lastOp.wb.restaurant_dishes) :
       /\ \E r \in Range(lastOp.wb.restaurants) : r.id = a.restaurant_id
       /\ \A d \in Range(lastOp.wb.dish_keywords) : d.id # a.dish_id

DocDone ==
  /\ pc = "done" /\ lastOp.op = "make_restaurant_doc_with_dishes"
  /\ lastOp.raised = ""

MenuHeading == "\nMenu highlights:"

\* What follows the menu heading in a document (nothing without heading).
AfterMenuHeading(doc) ==
  IF \E i \in DOMAIN doc : doc[i] = MenuHeading
  THEN SubSeq(doc, (CHOOSE i \in DOMAIN doc : doc[i] = MenuHeading) + 1, Len(doc))
  ELSE <<>>

\* The n heaviest of the rows at the positions S, heaviest first.
RECURSIVE Heaviest(_, _, _)
Heaviest(rows, S, n) ==
  IF S = {} \/ n = 0 THEN <<>>
  ELSE LET m == CHOOSE k \in S : \A j \in S : rows[k].weight >= rows[j].weight
       IN <<rows[m]>> \o Heaviest(rows, S \ {m}, n - 1)

\* The dish lines a document is to end with.
ExpectedDishLines(dishes) ==
  Concat([k \in DOMAIN dishes |->
            <<" ", "- ">> \o dishes[k].text
              \o (IF dishes[k].dietary_tags = NaN THEN <<>>
                  ELSE <<" (">> \o dishes[k].dietary_tags \o <<")">>)])

\* The positions of restaurant id's rows in a dish table.
RowsOf(id, rows) == {k \in DOMAIN rows : rows[k].restaurant_id = id}

\* C19: the loaded dish rows are sorted by restaurant_id ascending and weight
\* descending, and the dish lines of make_restaurant_doc_with_dishes(r,
\* dishes, top_n) are those of the min(top_n, number of r's dishes) heaviest
\* dishes of r, heaviest first, and of no other dish; the menu heading is
\* there exactly when there is such a line.
C19_TopDishes ==
  DocDone =>
    /\ \A i, j \in DOMAIN lastOp.df_dishes.rows :
         i < j =>
           \/ lastOp.df_dishes.rows[i].restaurant_id < lastOp.df_dishes.rows[j].restaurant_id
           \/ /\ lastOp.df_dishes.rows[i].restaurant_id
                   = lastOp.df_dishes.rows[j].restaurant_id
              /\ lastOp.df_dishes.rows[i].weight >= lastOp.df_dishes.rows[j].weight
    /\ AfterMenuHeading(lastOp.result)
         = ExpectedDishLines(Heaviest(lastOp.df_dishes.rows,
                                      RowsOf(lastOp.row.id, lastOp.df_dishes.rows),
                                      lastOp.top_n))
    /\ (\E i \in DOMAIN lastOp.result : lastOp.result[i] = MenuHeading)
         <=> (lastOp.top_n > 0 /\ RowsOf(lastOp.row.id, lastOp.df_dishes.rows) # {})

\* C19 witness: top_n is smaller than the number of the restaurant's dishes,
\* the table holds another restaurant's dish, and the heaviest dish is not
\* the first the sheet lists.
C19_Witness ==
  /\ DocDone
  /\ lastOp.top_n > 0
  /\ Cardinality(RowsOf(lastOp.row.id, lastOp.df_dishes.rows)) > lastOp.top_n
  /\ \E k \in DOMAIN lastOp.df_dishes.rows :
       lastOp.df_dishes.rows[k].restaurant_id # lastOp.row.id
  /\ \E k, j \in RowsOf(lastOp.row.id, lastOp.df_dishes.rows) :
       /\ lastOp.df_dishes.rows[k].dish_id < lastOp.df_dishes.rows[j].dish_id
       /\ lastOp.df_dishes.rows[k].weight < lastOp.df_dishes.rows[j].weight

\* The sentence of an optional field that is present, nothing when absent.
OptionalPart(before, value, after) ==
  IF value = NaN THEN <<>> ELSE <<before \o value \o after>>

\* The document in which an omitted optional field contributes nothing: the
\* present parts in their order, one blank between two parts.
ExpectedDoc(row, dishes) ==
  JoinWith(<<" ">>,
    << row.name \o <<" is a ">> \o row.price_level \o <<"-priced restaurant">> >>
      \o OptionalPart(<<"located in the ">>, row.zone, <<" zone of the mall.">>)
      \o << PyOr(row.description_long, row.description_short) >>
      \o OptionalPart(<<"Cuisine types: ">>, row.cuisines, <<".">>)
      \o OptionalPart(<<"Dietary options available: ">>, row.dietary_tags, <<".">>)
      \o OptionalPart(<<"Services: ">>, row.services, <<".">>)
      \o OptionalPart(<<"Open ">>, row.opening_hours, <<".">>)
      \o (IF dishes = <<>> THEN <<>> ELSE << <<MenuHeading>> >>))
    \o ExpectedDishLines(dishes)

\* C20: in the document of make_restaurant_doc_with_dishes an omitted
\* optional field (unknown zone, absent cuisines, dietary tags, services,
\* hours, no dishes) contributes no character: the document is the present
\* parts in the order name and price, zone, description, cuisines, dietary
\* tags, services, hours, dishes, with single blanks between them.
C20_OmittedFieldsContributeNothing ==
  DocDone =>
    /\ lastOp.result
         = ExpectedDoc(lastOp.row,
                       Heaviest(lastOp.df_dishes.rows,
                                RowsOf(lastOp.row.id, lastOp.df_dishes.rows),
                                lastOp.top_n))
    /\ \A i \in 1..(Len(lastOp.result) - 1) :
         ~(lastOp.result[i] = " " /\ lastOp.result[i + 1] = " ")

\* ---------------------------------------------- properties of the round trip
\* The keyword occurs in the text of a cell, whatever the case of the cell's
\* letters (the text of an empty cell is "nan").
KeywordIn(keyword, cell) ==
  \E i \in 1..(Len(Str(cell)) - Len(keyword) + 1) :
    \A j \in 1..Len(keyword) : LowerChar(Str(cell)[i + j - 1]) = keyword[j]

\* What get_by_id(id) returns in the state the last call left.
FetchedById(id) == get_by_id(RestaurantStore, id, FALSE).result

\* C18: after index_restaurants has indexed a table, get_by_id(r.id) returns,
\* for every row r of it, one entry whose metadata has r's name and
\* price_level and whose has_vegetarian, has_vegan, has_gluten_free,
\* has_takeaway and has_bar are the case-insensitive keyword tests on r's
\* dietary_tags and services.
C18_RoundTrip ==
  (IndexCallDone /\ lastOp.op = "index_restaurants" /\ lastOp.raised = "") =>
    \A r \in Range(lastOp.table.df_restaurants) :
      /\ Cardinality(FetchedById(r.id)) = 1
      /\ \A e \in FetchedById(r.id) :
           /\ e.id = RestaurantId(r.id)
           /\ e.metadata.name = r.name
           /\ e.metadata.price_level = r.price_level
           /\ e.metadata.has_vegetarian = KeywordIn(Vegetarian, r.dietary_tags)
           /\ e.metadata.has_vegan = KeywordIn(Vegan, r.dietary_tags)
           /\ e.metadata.has_gluten_free = KeywordIn(GlutenFree, r.dietary_tags)
           /\ e.metadata.has_takeaway = KeywordIn(Takeaway, r.services)
           /\ e.metadata.has_bar = KeywordIn(Bar, r.services)

\* C18 witness: the table indexed has a row whose tags are written with a
\* capital letter and a row without tags, and an entry of the first row's
\* id was in the collection before.
C18_Witness ==
  /\ IndexCallDone /\ lastOp.op = "index_restaurants" /\ lastOp.raised = ""
  /\ \E r \in Range(lastOp.table.df_restaurants) :
       /\ r.dietary_tags # NaN
       /\ Lower(r.dietary_tags) # r.dietary_tags
       /\ RestaurantId(r.id) \in Ids(lastOp.before.entries)
       /\ FetchedById(r.id) \cap lastOp.before.entries = {}
  /\ \E r \in Range(lastOp.table.df_restaurants) : r.dietary_tags = NaN

\* ----------------------------------- properties of the facade's tables
\* A call of get_available_zones or get_available_price_levels has returned.
GetterDone ==
  pc = "done" /\ lastOp.op \in {"get_available_zones", "get_available_price_levels"}

\* The non-null values of a column of the table the facade holds.
TableValues(column) ==
  {row[column] : row \in UNION {Range(t) : t \in facade.df_restaurants}} \ {NaN}

\* C21: get_available_zones and get_available_price_levels return the distinct
\* non-null values of the facade's restaurant table in ascending order, and the
\* empty list while the facade holds no table. The table is the one of the last
\* load_and_index that fetched: a call that skipped, or whose fetch failed,
\* leaves the facade's table (or its absence) as it was, and a facade on which
\* load_and_index never ran holds none.
C21_AvailableValues ==
  /\ GetterDone =>
       /\ \A i, j \in DOMAIN lastOp.result :
            i < j => WordRank(lastOp.result[i]) < WordRank(lastOp.result[j])
       /\ Range(lastOp.result) = TableValues(lastOp.column)
       /\ facade.df_restaurants = {} => lastOp.result = <<>>
  /\ LoadCallDone =>
       facade.df_restaurants =
         IF lastOp.skipped \/ lastOp.source = FetchFailed
         THEN lastOp.table_before
         ELSE {lastOp.source.df_restaurants}
  /\ facade.vector_store = "None" => facade.df_restaurants = {}

\* C21 witness: a facade whose load_and_index ran on indexed collections and
\* kept no table answers the empty list.
C21_Witness ==
  /\ GetterDone /\ lastOp.result = <<>>
  /\ facade.vector_store = "handle" /\ facade.dish_vector_store = "handle"
  /\ facade.df_restaurants = {}
  /\ db.restaurants.entries # {} /\ db.dishes.entries # {}

\* C22: when the fetch of the remote source fails, load_and_index raises after
\* that one attempt, and the entries of both collections are as they were at
\* the call. With force_reindex the storage as a whole is as it was: nothing is
\* dropped, since the fetch comes before the index calls.
C22_FetchFailureLeavesCollections ==
  (LoadCallDone /\ lastOp.source = FetchFailed /\ ~lastOp.skipped) =>
    /\ lastOp.fetched
    /\ lastOp.raised = "FetchError"
    /\ EntriesUnchanged
    /\ lastOp.force_reindex => db = lastOp.before
    /\ facade.df_restaurants = lastOp.table_before

\* C22 witness: a load_and_index(force_reindex=True) on two non-empty
\* collections whose fetch failed.
C22_Witness ==
  /\ LoadCallDone /\ lastOp.force_reindex /\ lastOp.source = FetchFailed
  /\ lastOp.raised = "FetchError"
  /\ BothNonEmpty(lastOp.before)
  /\ BothNonEmpty(db)

\* C23: after load_and_index(force_reindex=True) has returned normally, with
\* no storage failure, the ids of the restaurant collection are those of the
\* loaded restaurant table and the ids of the dish collection are those of the
\* loaded dish table, so no earlier entry is left, also when the loaded dish
\* table has no rows.
C23_ForcedReindexMirrors ==
  (LoadCallDone /\ lastOp.force_reindex /\ lastOp.raised = ""
     /\ lastOp.faultR = "none" /\ lastOp.faultD = "none") =>
    /\ Ids(db.restaurants.entries) =
         {RestaurantId(r.id) : r \in Range(lastOp.source.df_restaurants)}
    /\ Ids(db.dishes.entries) =
         {DishId(d.restaurant_id, d.dish_id) : d \in Range(lastOp.source.df_dishes.rows)}

\* ------------------------------------------- properties of the time filter
\* search_restaurants has answered.
RestaurantToolDone ==
  pc = "done" /\ lastOp.op = "tool_search_restaurants" /\ lastOp.stage = "done"

\* The restaurants the facade found that are open at time T.
FoundOpenAt(T) ==
  SelectSeq(lastOp.found,
            LAMBDA x : /\ x.metadata.opening_time # <<>>
                       /\ x.metadata.closing_time # <<>>
                       /\ StrLeq(x.metadata.opening_time, T)
                       /\ StrLeq(T, x.metadata.closing_time))

\* C24: search_restaurants applies the time post-filter exactly when open_now
\* is true or open_at_time is a non-empty text; with open_now=False and no
\* open_at_time the answer holds everything the facade found, as with neither
\* parameter; with a non-empty open_at_time that text is the target time and
\* the wall clock is not read, whatever open_now is; the clock is read exactly
\* when open_now is true and open_at_time is absent or empty.
C24_TimeFilterWhenAsked ==
  RestaurantToolDone =>
    /\ lastOp.results = IF TimeFilterAsked THEN FoundOpenAt(TargetTime) ELSE lastOp.found
    /\ ("open_now" \in DOMAIN lastOp.args /\ ~lastOp.args.open_now
          /\ "open_at_time" \notin DOMAIN lastOp.args) => lastOp.results = lastOp.found
    /\ ("open_at_time" \in DOMAIN lastOp.args /\ lastOp.args.open_at_time # <<>>) =>
         /\ TargetTime = lastOp.args.open_at_time
         /\ lastOp.clock = ClockUnread
    /\ lastOp.clock # ClockUnread <=>
         /\ "open_now" \in DOMAIN lastOp.args /\ lastOp.args.open_now
         /\ "open_at_time" \in DOMAIN lastOp.args => lastOp.args.open_at_time = <<>>

\* C24 witness: open_now=False and no open_at_time; the answer keeps a
\* restaurant without opening hours that the facade found.
C24_Witness ==
  /\ RestaurantToolDone
  /\ "open_now" \in DOMAIN lastOp.args /\ ~lastOp.args.open_now
  /\ "open_at_time" \notin DOMAIN lastOp.args
  /\ lastOp.clock = ClockUnread
  /\ lastOp.results = lastOp.found
  /\ \E k \in DOMAIN lastOp.results : lastOp.results[k].metadata.opening_time = <<>>

\* C24 as stated: the time filter is applied exactly when open_now is true or
\* open_at_time is given (passed, whatever its text), and with open_at_time
\* given it is the target time and the wall clock is not read.
C24_TimeFilterWhenGiven ==
  RestaurantToolDone =>
    /\ lastOp.results =
         IF "open_at_time" \in DOMAIN lastOp.args
         THEN FoundOpenAt(lastOp.args.open_at_time)
         ELSE IF "open_now" \in DOMAIN lastOp.args /\ lastOp.args.open_now
         THEN FoundOpenAt(lastOp.clock)
         ELSE lastOp.found
    /\ "open_at_time" \in DOMAIN lastOp.args => lastOp.clock = ClockUnread

\* --------------------------------------------- properties of the singleton
\* One of the three tools has been called.
ToolCallDone ==
  pc = "done"
    /\ lastOp.op \in {"tool_search_restaurants", "tool_search_dishes", "get_walking_time"}

\* C26: the singleton. A tool constructs a facade, and calls its
\* load_and_index, exactly when RestaurantSearch._instance is None at the call;
\* afterwards _instance is set, also when that load raised. Once a facade has
\* been constructed, by RestaurantSearch(...) or by a tool, no tool call
\* constructs another or loads: the facade's tables and the entries of both
\* collections are as they were at the call. While _instance is None no facade
\* has been constructed and nothing has been loaded.
C26_Singleton ==
  /\ ToolCallDone =>
       /\ instance = "facade"
       /\ lastOp.constructed <=> lastOp.before.instance = "None"
       /\ lastOp.before.instance = "facade" =>
            /\ ~lastOp.constructed
            /\ lastOp.stage # "init"
            /\ facade.df_restaurants = lastOp.before.facade.df_restaurants
            /\ facade.df_dishes = lastOp.before.facade.df_dishes
            /\ db.restaurants.entries = lastOp.before.db.restaurants.entries
            /\ db.dishes.entries = lastOp.before.db.dishes.entries
  /\ instance = "None" => facade = NewFacade /\ ~loaded

\* C26 witness: a tool called after RestaurantSearch(...) was constructed
\* again, on indexed collections: it uses the new facade, which holds no
\* table, and neither constructs nor loads.
C26_Witness ==
  /\ ToolCallDone /\ lastOp.stage = "done"
  /\ lastOp.before.instance = "facade"
  /\ ~lastOp.constructed
  /\ lastOp.before.facade = NewFacade
  /\ facade.df_restaurants = {}
  /\ db.restaurants.entries # {}

\* ------------------------------------------------ properties of the streams
\* The first k content items of a streamed answer: the i-th carries the text
\* of the first i deltas.
ContentItems(k) ==
  [i \in 1..k |-> [type |-> "content", content |-> [j \in 1..i |-> j]]]

\* The items of a stream before the end-of-stream item.
BeforeNone(items) == SelectSeq(items, LAMBDA m : m # None)

\* What a request's producer has put agrees with the protocol: content items
\* with the cumulative text, then 'done' only on the way out without an
\* exception, then None once the thread has ended, and nothing else.
ProducerProtocol(s) ==
  \E k \in 0..MaxDeltas :
    produced[s] =
      CASE producer[s] \in {"unstarted", "streaming", "finally_raising"} -> ContentItems(k)
        [] producer[s] = "finally" -> Append(ContentItems(k), [type |-> "done"])
        [] producer[s] = "returned" -> ContentItems(k) \o <<[type |-> "done"], None>>
        [] producer[s] = "raised" -> Append(ContentItems(k), None)

\* What a request's consumer has yielded and what is left for it: the items in
\* the order they were put, none lost, none after None; it has ended only by
\* taking None, and then the stream id is no longer registered.
ConsumerProtocol(s) ==
  /\ consumer[s] = "waiting" =>
       /\ s \in streams
       /\ emitted[s] \o queues[s] = produced[s]
  /\ consumer[s] = "ended" =>
       /\ s \notin streams
       /\ producer[s] \in {"returned", "raised"}
       /\ emitted[s] = BeforeNone(produced[s])
       /\ Append(emitted[s], None) = produced[s]
  /\ None \notin Range(emitted[s])

\* C25: for every /send request the producer puts zero or more content items
\* carrying the cumulative text, then 'done' only when streaming ended without
\* an exception, and in every case exactly one None, last; the /stream
\* consumer yields every item before None in order, ends on None and removes
\* the stream id from the registry; and a consumer connected to a registered
\* stream eventually ends.
C25_StreamProtocol ==
  /\ [](\A s \in 1..MaxStreams : ProducerProtocol(s) /\ ConsumerProtocol(s))
  /\ \A s \in 1..MaxStreams : (consumer[s] = "waiting") ~> (consumer[s] = "ended")

\* C25 witness: the answer of a request failed after its first content item;
\* the consumer yielded that item, no 'done', ended on None, and the stream
\* id is gone from the registry.
C25_Witness ==
  \E s \in 1..MaxStreams :
    /\ producer[s] = "raised"
    /\ consumer[s] = "ended"
    /\ emitted[s] = ContentItems(1)
    /\ s \notin streams

====
